---- MODULE Spec2Model ----
(***************************************************************************)
(* Model of the fixel correspondence tools of MRtrix3:                     *)
(*   - fixel2fixel run(), its Source functor and the Projector             *)
(*     (cmd/fixel2fixel.cpp, src/fixel/correspondence/projector.{h,cpp})   *)
(*   - the correspondence Mapping (src/fixel/correspondence/mapping.h)     *)
(*   - the matching pass of fixelcorrespondence (cmd/fixelcorrespondence)  *)
(*                                                                         *)
(* Arrays keep the zero-based indices of the source: an image or vector    *)
(* of n entries is a function with domain 0..n-1.  A source-index list of  *)
(* the mapping is a sequence (its order is kept).                          *)
(*                                                                         *)
(* float values are exact rationals [k |-> "fin", n, d] (d > 0, lowest     *)
(* terms), the not-a-number value, or an infinity; rounding of float       *)
(* arithmetic is not modelled.  uint8_t keeps its width (% U8Mod).         *)
(***************************************************************************)
EXTENDS Integers, Sequences, FiniteSets, TLC

VARIABLES
  \* fixel2fixel
  pc,                \* position of run()
  nthreads,          \* number of worker threads of the run
  env,               \* what the run has found out about the files it was given
  fill,              \* FillSettings
  metric,            \* projection_metric_t
  correspondence,    \* the Mapping loaded from argument[1]
  explicit_weights,  \* Image<float> of -weighted
  input_data,        \* Projector::input_data
  implicit_weights,  \* Projector::implicit_weights
  output_data,       \* Projector::output_data (scratch buffer shared by the workers)
  size,              \* Source::size
  counter,           \* Source::counter
  closed,            \* the Source functor has returned false
  queue,             \* items written by the source thread and not yet read
  worker,            \* per worker thread: its copy of the Projector functor
  calls,             \* per target index: the workers that have run operator() on it
  outfile,           \* the output data file, once created
  \* Mapping
  mstate,            \* life of the Mapping object: "none", "live", "abort", "crash"
  ndebug,            \* the build has assert() compiled out
  source_fixels,     \* Mapping::source_fixels
  target_fixels,     \* Mapping::target_fixels
  M,                 \* Mapping::M
  fresh,             \* nothing was written since construction
  result,            \* what the last read through operator[] or size() returned
  \* matching pass of fixelcorrespondence
  vox,               \* per voxel: number of source fixels s and of target fixels t
  algorithm,         \* the selected correspondence algorithm
  mthreads,          \* number of threads of the ThreadedLoop
  nextVoxel,         \* next voxel the loop hands out
  mworker,           \* per thread: the voxel it is on, its fragment, the next entry to write
  \* Mapping::save, load and inverse
  disk,              \* the mapping directory written by save()
  loaded,            \* the Mapping that load() has filled
  inv,               \* what inverse() returned
  \* DP2Cost
  table,             \* the DP2Cost object: its resolution, multiplier and table size
  query,             \* the last calls of DP2Cost::operator(), oldest first
  \* algorithm "nearest"
  maxangle,          \* the angle the Nearest algorithm was constructed with, in degrees
  angles,            \* the voxel of the call: per target fixel, the angle to each source fixel
  assigned,          \* what the call returned: per target fixel, a list of source fixels
  \* mrthreshold
  tpc,               \* position of run()
  topt,              \* the command-line options, as far as run() has read them
  image,             \* Image in, once opened: one list of voxel values per volume
  mask,              \* Image<bool> mask of -mask, once opened
  out,               \* the output image, once created
  cout,              \* the thresholds written to standard output
  volume,            \* the volume the per-volume loop of execute() is on
  thresholds,        \* the thresholds calculate() has returned
  issue_degeneracy_warning,
  log,               \* the warnings and the error message of the run, in order
  \* fixelcorrespondence
  cpc,               \* position of run()
  copt,              \* the command line and what it names on disk
  calgorithm,        \* the object behind std::shared_ptr<Algorithms::Base> algorithm
  cnext,             \* next voxel the ThreadedLoop hands out
  cthread,           \* per thread of the ThreadedLoop: the voxel it is on, 0 when idle
  matched,           \* the voxels the matcher has finished
  files,             \* the outputs created, in order of creation
  saved,             \* the voxels the saved mapping holds entries of
  cerr,              \* the message of the exception that ended the run
  \* SpatialLock
  txyz,              \* _tx, _ty, _tz
  lockcentres,       \* std::set<Point> lockcentres
  mutex,             \* the thread that holds std::mutex mutex, 0 when it is free
  caller,            \* per thread: the call it is in and how far it has got
  grants,            \* per position: the calls of lockIfNotLocked that returned true
                     \* since the last unlock of the position
  \* Math::binomial
  nk,                \* the arguments n and k of the call
  coefficient,       \* what the call returned
  \* the Source functor of fixel2fixel on its own
  source,            \* the Source object: its members size and counter
  returned           \* per call of Source::operator(), in order: index and return value

f2fvars == <<pc, nthreads, env, fill, metric, correspondence, explicit_weights, input_data,
             implicit_weights, output_data, size, counter, closed, queue, worker, calls,
             outfile>>

mapvars == <<mstate, ndebug, source_fixels, target_fixels, M, fresh, result>>

matchvars == <<vox, algorithm, mthreads, nextVoxel, mworker>>

persistvars == <<disk, loaded, inv>>

costvars == <<table, query>>

nearvars == <<maxangle, angles, assigned>>

thrvars == <<tpc, topt, image, mask, out, cout, volume, thresholds, issue_degeneracy_warning,
             log>>

corrvars == <<cpc, copt, calgorithm, cnext, cthread, matched, files, saved, cerr>>

lockvars == <<txyz, lockcentres, mutex, caller, grants>>

binvars == <<nk, coefficient>>

srcvars == <<source, returned>>

vars == <<f2fvars, mapvars, matchvars, persistvars, costvars, nearvars, thrvars, corrvars,
          lockvars, binvars, srcvars>>

(* ------------------------------ bounds -------------------------------- *)
\* largest number of target fixels of an enumerated mapping
MaxTargets == 2
\* number of source fixels of the source dataset the mappings were built for
MaxSources == 2
\* longest source-index list of an enumerated mapping
MaxListLen == 2
\* largest number of worker threads
MaxWorkers == 2
\* capacity of the thread queue between Source and the workers
QueueCap == 1

(* -------------------------- program constants ------------------------- *)
\* number of values of uint8_t, the element type of objectives_per_source_fixel
U8Mod == 256
\* FILLVALUE_DEFAULT
FillDefault == 0

(* ------------------------------ floats -------------------------------- *)
Abs(x) == IF x < 0 THEN -x ELSE x

Sign(x) == IF x < 0 THEN -1 ELSE IF x = 0 THEN 0 ELSE 1

RECURSIVE GCD(_, _)
GCD(a, b) == IF b = 0 THEN a ELSE GCD(b, a % b)

NaN == [k |-> "nan", n |-> 0, d |-> 1]

Inf(s) == [k |-> "inf", n |-> s, d |-> 1]

\* the rational n/d (d # 0) in lowest terms with a positive denominator
Fin(n, d) ==
  LET g == GCD(Abs(n), Abs(d))
  IN [k |-> "fin", n |-> (Sign(d) * n) \div g, d |-> Abs(d) \div g]

Flt(i) == Fin(i, 1)

IsNaN(x) == x.k = "nan"

\* operands are finite in every reachable state: the inputs are finite and
\* only the last operation of an aggregate (the division) can leave the finite values
FAdd(a, b) == IF a.k = "fin" /\ b.k = "fin" THEN Fin(a.n * b.d + b.n * a.d, a.d * b.d) ELSE NaN

FMul(a, b) == IF a.k = "fin" /\ b.k = "fin" THEN Fin(a.n * b.n, a.d * b.d) ELSE NaN

\* IEEE division: 0/0 is NaN, x/0 an infinity
FDiv(a, b) ==
  IF a.k # "fin" \/ b.k # "fin" THEN NaN
  ELSE IF b.n = 0 THEN (IF a.n = 0 THEN NaN ELSE Inf(Sign(a.n)))
  ELSE Fin(a.n * b.d, a.d * b.n)

FLess(a, b) == a.k = "fin" /\ b.k = "fin" /\ a.n * b.d < b.n * a.d


(* ------------------------ inputs of fixel2fixel ------------------------ *)
Metrics == {"SUM", "MEAN", "COUNT", "ANGLE"}

\* values of -fill: the default and one other value
FillValues == {Flt(FillDefault), Flt(5)}

\* the source-index lists a target entry can hold
Lists == UNION {[1..l -> 0..(MaxSources - 1)] : l \in 0..MaxListLen}

\* every mapping of up to MaxTargets targets
SmallMappings == UNION {[0..(n - 1) -> Lists] : n \in 0..MaxTargets}

\* one source fixel feeding every one of n targets, n around the range of uint8_t
FanOutMappings == {[t \in 0..(n - 1) |-> <<0>>] : n \in {U8Mod, U8Mod + 1}}

\* content of the source data file: fixel i holds 2, 4, 6, ...
DataFile(n) == [i \in 0..(n - 1) |-> Flt(2 * (i + 1))]

\* content of the -weighted file: fixel i holds 1, 2, 0, 1, 2, 0, ...
WeightsFile(n) == [i \in 0..(n - 1) |-> Flt((i + 1) % 3)]

\* the image handle that was never opened: valid() is false
NoImage == [valid |-> FALSE, data |-> << >>]

Opened(f) == [valid |-> TRUE, data |-> f]

\* size(0) of an image
Size0(img) == Cardinality(DOMAIN img.data)

(* ------------------------- Projector, constructor ---------------------- *)
\* number of times source fixel i is named in the lists of the mapping
Occurrences(corr, i) ==
  Cardinality({p \in UNION {{<<t, j>> : j \in 1..Len(corr[t])} : t \in DOMAIN corr} :
                 corr[p[1]][p[2]] = i})

\* the uint8_t counter after one ++ for every occurrence
ObjectivesPerSourceFixel(corr, i) == Occurrences(corr, i) % U8Mod

ImplicitWeights(corr, n) ==
  [i \in 0..(n - 1) |->
     IF ObjectivesPerSourceFixel(corr, i) # 0
     THEN FDiv(Flt(1), Flt(ObjectivesPerSourceFixel(corr, i)))
     ELSE Flt(0)]

\* the assertion of the counting loop: every stored index is inside the counter vector
IndicesInRange(corr, n) ==
  \A t \in DOMAIN corr : \A j \in 1..Len(corr[t]) : corr[t][j] < n

(* ------------------------- Projector, operator() ----------------------- *)
EmptyValueDefault(f) == Flt(FillDefault)

\* value written for a target with no source fixel
EmptyValue(f) == f.value

Many2OneLoose(in, f) == Len(in) > 2 /\ f.nan_many2one

\* the nan_many2one test
Many2One(in, f) == Len(in) > 1 /\ f.nan_many2one

\* the nan_one2many test inside the accumulation loop: the loop leaves with NaN
\* at the first source fixel whose implicit weight is below one
One2Many(in, f, iw) == f.nan_one2many /\ \E j \in 1..Len(in) : FLess(iw[in[j]], Flt(1))

\* weights[j] of the accumulation loop
Weight(i, iw, ew) == IF ew.valid THEN FMul(iw[i], ew.data[i]) ELSE iw[i]

RECURSIVE SumOver(_, _, _)
\* sum over j = 1..n of term[j], accumulated from the left starting at 0.0f
SumOver(term, n, acc) ==
  IF n = 0 THEN acc ELSE FAdd(SumOver(term, n - 1, acc), term[n])

WeightedSum(in, data, iw, ew) ==
  SumOver([j \in 1..Len(in) |-> FMul(data[in[j]], Weight(in[j], iw, ew))], Len(in), Flt(0))

SumWeights(in, iw, ew) ==
  SumOver([j \in 1..Len(in) |-> Weight(in[j], iw, ew)], Len(in), Flt(0))

\* metric ANGLE with every fixel direction on one common axis: each source direction
\* is flipped onto the target direction, so mean_dir is the target direction scaled by
\* the sum of the weights; normalize() of the zero vector gives NaN
Angle(in, iw, ew) ==
  LET s == SumWeights(in, iw, ew)
  IN IF s.k # "fin" \/ s.n = 0 THEN NaN
     ELSE IF s.n > 0 THEN Flt(0) ELSE [k |-> "pi", n |-> 1, d |-> 1]

Aggregate(in, data, iw, ew, met) ==
  CASE met = "SUM" -> WeightedSum(in, data, iw, ew)
    [] met = "MEAN" -> FDiv(WeightedSum(in, data, iw, ew), SumWeights(in, iw, ew))
    [] met = "COUNT" -> Flt(Len(in))
    [] met = "ANGLE" -> Angle(in, iw, ew)

\* the value Projector::operator() stores in output_data at out_index
Project(in, data, iw, ew, f, met) ==
  IF Len(in) = 0 THEN EmptyValue(f)
  ELSE IF Many2One(in, f) THEN NaN
  ELSE IF One2Many(in, f, iw) THEN NaN
  ELSE Aggregate(in, data, iw, ew, met)


(* --------------------------- fixel2fixel run() ------------------------- *)
\* fixel2fixel touches neither a Mapping under construction nor the matching pass
F2FFrame ==
  UNCHANGED <<mapvars, matchvars, persistvars, costvars, nearvars, thrvars, corrvars,
              lockvars, binvars, srcvars>>

\* fixel counts a data file handed to the command can have
InputSizes == (MaxSources - 1)..(MaxSources + 1)

\* content of memory read past the end of an image buffer
Garbage == {Flt(0), Flt(1)}

\* an image buffer of n cells as seen through indices 0..m-1: cells past the end
\* hold whatever the memory behind the buffer holds
Padded(f, m, g) == [i \in 0..(m - 1) |-> IF i \in DOMAIN f THEN f[i] ELSE g]

Workers == 1..nthreads

Idle == [st |-> "idle", item |-> 0, index |-> 0]

\* the state at the start of run(); correspondence holds the mapping stored in the
\* directory of argument[1], which line 119 loads
F2FInit ==
  /\ pc = "options"
  /\ env = [outdir |-> {}, isdir |-> {}, isdata |-> {}, wdata |-> {}, wsize |-> {},
            insize |-> {}, tsize |-> {}]
  /\ fill = [value |-> Flt(FillDefault), nan_many2one |-> FALSE, nan_one2many |-> FALSE]
  /\ metric = "SUM"
  /\ explicit_weights = NoImage
  /\ input_data = << >>
  /\ implicit_weights = << >>
  /\ output_data = << >>
  /\ size = 0
  /\ counter = 0
  /\ closed = FALSE
  /\ queue = << >>
  /\ worker = [w \in Workers |-> Idle]
  /\ calls = << >>
  /\ outfile = NoImage

\* lines 113-129: the options, the mapping and the metric
RunOptions ==
  /\ pc = "options"
  /\ \E v \in FillValues, m2o \in BOOLEAN, o2m \in BOOLEAN :
       fill' = [value |-> v, nan_many2one |-> m2o, nan_one2many |-> o2m]
  /\ metric' \in Metrics
  /\ pc' = "outdir"
  /\ UNCHANGED <<nthreads, correspondence, env, explicit_weights, input_data, implicit_weights, output_data,
                 size, counter, closed, queue, worker, calls, outfile>>
  /\ F2FFrame

\* lines 131-132
RunOutputDir ==
  /\ pc = "outdir"
  /\ \E exists \in BOOLEAN :
       /\ env' = [env EXCEPT !.outdir = {exists}]
       /\ pc' = IF exists THEN "weights" ELSE "error"
  /\ UNCHANGED <<nthreads, fill, metric, correspondence, explicit_weights, input_data,
                 implicit_weights, output_data, size, counter, closed, queue, worker, calls,
                 outfile>>
  /\ F2FFrame

\* lines 134-140
RunWeights ==
  /\ pc = "weights"
  /\ \/ /\ explicit_weights' = NoImage
        /\ env' = env
        /\ pc' = "source"
     \/ \E n \in InputSizes, isdata \in BOOLEAN :
          /\ explicit_weights' = Opened(WeightsFile(n))
          /\ env' = [env EXCEPT !.wdata = {isdata}, !.wsize = {n}]
          /\ pc' = IF isdata THEN "source" ELSE "error"
  /\ UNCHANGED <<nthreads, fill, metric, correspondence, input_data, implicit_weights,
                 output_data, size, counter, closed, queue, worker, calls, outfile>>
  /\ F2FFrame

\* line 142: Source source (correspondence.size())
RunSource ==
  /\ pc = "source"
  /\ size' = Cardinality(DOMAIN correspondence)
  /\ counter' = 0
  /\ pc' = "projector"
  /\ UNCHANGED <<nthreads, env, fill, metric, correspondence, explicit_weights, input_data,
                 implicit_weights, output_data, closed, queue, worker, calls, outfile>>
  /\ F2FFrame


(* ----------------------- Projector::Projector -------------------------- *)
WeightsMatchAlways(ew, n) == TRUE

\* line 41, negated: the weights image, when given, has as many fixels as the input
WeightsMatch(ew, n) == ~(ew.valid /\ Size0(ew) # n)

\* line 49, negated: the output directory has one fixel per line of the mapping
TargetsMatch(tn, corr) == tn = Cardinality(DOMAIN corr)

\* the constructor throws: what it had read by then is in e
ConstructFails(e) ==
  /\ env' = e
  /\ pc' = "error"
  /\ UNCHANGED <<explicit_weights, input_data, implicit_weights, output_data, calls>>

\* the constructor completes, lines 44-75; g is the content of memory past the end of
\* the buffers, which is read only when the mapping names a fixel the file does not have
ConstructDone(e, n, g) ==
  /\ env' = e
  /\ input_data' = Padded(DataFile(n), MaxSources + 1, g)
  /\ explicit_weights' =
       IF explicit_weights.valid
       THEN Opened(Padded(explicit_weights.data, MaxSources + 1, g))
       ELSE explicit_weights
  /\ implicit_weights' = Padded(ImplicitWeights(correspondence, n), MaxSources + 1, g)
  /\ output_data' = [k \in DOMAIN correspondence |-> Flt(0)]
  /\ calls' = [k \in DOMAIN correspondence |-> << >>]
  /\ pc' = "queue"

\* fixel2fixel.cpp line 143, projector.cpp lines 25-76
ProjectorConstruct ==
  /\ pc = "projector"
  /\ \E isdir \in BOOLEAN, isdata \in BOOLEAN, n \in InputSizes, tn \in {size, size + 1} :
       LET e1 == [env EXCEPT !.isdir = {isdir}]
           e2 == [e1 EXCEPT !.isdata = {isdata}, !.insize = {n}]
           e3 == [e2 EXCEPT !.tsize = {tn}]
       IN IF isdir THEN ConstructFails(e1)
          ELSE IF ~isdata THEN ConstructFails(e2)
          ELSE IF ~WeightsMatch(explicit_weights, n) THEN ConstructFails(e2)
          ELSE IF ~TargetsMatch(tn, correspondence) THEN ConstructFails(e3)
          ELSE IF IndicesInRange(correspondence, n) THEN ConstructDone(e3, n, Flt(0))
          ELSE \* line 67: the assertion fails (debug build), or line 68 writes past
               \* the end of the vector (release build): the run crashes or goes on
               \/ /\ env' = e3
                  /\ pc' \in {"abort", "crash"}
                  /\ UNCHANGED <<explicit_weights, input_data, implicit_weights,
                                 output_data, calls>>
               \/ \E g \in Garbage : ConstructDone(e3, n, g)
  /\ UNCHANGED <<nthreads, fill, metric, correspondence, size, counter, closed, queue,
                 worker, outfile>>
  /\ F2FFrame

(* ------------------- Thread::run_queue: source, workers ----------------- *)
\* Source::operator(), fixel2fixel.cpp lines 96-100, called by the source thread;
\* an item for which it returns true is written to the queue
SourceCall ==
  /\ pc = "queue"
  /\ ~closed
  /\ Len(queue) < QueueCap
  /\ counter' = counter + 1
  /\ IF counter < size
     THEN queue' = Append(queue, counter) /\ closed' = closed
     ELSE queue' = queue /\ closed' = TRUE
  /\ UNCHANGED <<pc, nthreads, env, fill, metric, correspondence, explicit_weights,
                 input_data, implicit_weights, output_data, size, worker, calls, outfile>>
  /\ F2FFrame

\* projector.cpp lines 84-85: operator() is entered on worker w's own copy of the
\* functor and sets the position of that copy's output_data
EnterCall(w, out_index) ==
  /\ out_index < Cardinality(DOMAIN correspondence)
  /\ worker' = [worker EXCEPT ![w] = [st |-> "busy", item |-> out_index,
                                       index |-> out_index]]

\* a worker thread reads the next item from the queue and calls its functor with it
WorkerBegin(w) ==
  /\ pc = "queue"
  /\ worker[w].st = "idle"
  /\ queue # << >>
  /\ EnterCall(w, Head(queue))
  /\ queue' = Tail(queue)
  /\ UNCHANGED <<pc, nthreads, env, fill, metric, correspondence, explicit_weights,
                 input_data, implicit_weights, output_data, size, counter, closed, calls,
                 outfile>>
  /\ F2FFrame

OutputIndexOfFirst(w) == worker[1].index

\* the entry output_data.value() refers to in worker w's copy of the functor
OutputIndex(w) == worker[w].index

\* lines 87-159: the value is computed and stored at the position set in line 85
WorkerEnd(w) ==
  /\ pc = "queue"
  /\ worker[w].st = "busy"
  /\ output_data' =
       [output_data EXCEPT ![OutputIndex(w)] =
          Project(correspondence[worker[w].item], input_data, implicit_weights,
                  explicit_weights, fill, metric)]
  /\ calls' = [calls EXCEPT ![worker[w].item] = Append(@, w)]
  /\ worker' = [worker EXCEPT ![w].st = "idle"]
  /\ UNCHANGED <<pc, nthreads, env, fill, metric, correspondence, explicit_weights,
                 input_data, implicit_weights, size, counter, closed, queue, outfile>>
  /\ F2FFrame

\* run_queue has returned; line 145, Projector::save
RunSave ==
  /\ pc = "queue"
  /\ closed
  /\ queue = << >>
  /\ \A w \in Workers : worker[w].st = "idle"
  /\ outfile' = Opened(output_data)
  /\ pc' = "done"
  /\ UNCHANGED <<nthreads, env, fill, metric, correspondence, explicit_weights, input_data,
                 implicit_weights, output_data, size, counter, closed, queue, worker, calls>>
  /\ F2FFrame

F2FNext ==
  \/ RunOptions
  \/ RunOutputDir
  \/ RunWeights
  \/ RunSource
  \/ ProjectorConstruct
  \/ SourceCall
  \/ \E w \in Workers : WorkerBegin(w)
  \/ \E w \in Workers : WorkerEnd(w)
  \/ RunSave

(* ------------------------------ Mapping -------------------------------- *)
\* longest list stored while a Mapping is exercised on its own
MapListLen == 1

\* the lists assigned through operator[]
MapLists == UNION {[1..l -> 0..(MaxSources - 1)] : l \in 0..MapListLen}

NewMappingBySources(s, t) == [k \in 0..(s - 1) |-> << >>]

\* the constructor Mapping (source_fixels, target_fixels): one empty list per target
NewMapping(s, t) == [k \in 0..(t - 1) |-> << >>]

\* Mapping::size()
MapSize(m) == Cardinality(DOMAIN m)

MapAssignFirst(m, index, data) == [m EXCEPT ![0] = data]

\* Value::operator= : M[index] = data
MapAssign(m, index, data) == [m EXCEPT ![index] = data]

\* the assertion of the constructors of Value and ConstValue
IndexInRange(m, index) == index < MapSize(m)

NoResult == [op |-> "none", val |-> << >>]

\* neither fixel2fixel nor the matching pass runs while the Mapping is exercised alone
MapFrame ==
  UNCHANGED <<f2fvars, matchvars, persistvars, costvars, nearvars, thrvars, corrvars,
              lockvars, binvars, srcvars>>

\* an access with an index outside the mapping: the assertion ends a debug build; a
\* release build accesses memory past the end of M, and either crashes or goes on
\* with the read value g and the written value lost
OutOfRange(g) ==
  /\ IF ~ndebug THEN mstate' = "abort" /\ result' = result
     ELSE \/ mstate' = "crash" /\ result' = result
          \/ mstate' = mstate /\ result' = g
  /\ UNCHANGED <<ndebug, source_fixels, target_fixels, M, fresh>>

\* Mapping (source_fixels, target_fixels)
MappingConstruct ==
  /\ mstate = "none"
  /\ \E s \in 0..MaxSources, t \in 0..MaxTargets :
       /\ source_fixels' = s
       /\ target_fixels' = t
       /\ M' = NewMapping(s, t)
  /\ mstate' = "live"
  /\ fresh' = TRUE
  /\ UNCHANGED <<ndebug, result>>
  /\ MapFrame

\* mapping[index] = data
MappingAssign ==
  /\ mstate = "live"
  /\ \E index \in 0..target_fixels, data \in MapLists :
       IF IndexInRange(M, index)
       THEN /\ M' = MapAssign(M, index, data)
            /\ fresh' = FALSE
            /\ UNCHANGED <<mstate, ndebug, source_fixels, target_fixels, result>>
       ELSE OutOfRange(result)
  /\ MapFrame

\* mapping[index]().push_back (i): the list is changed through the reference that
\* Value::operator() returns
MappingPushBack ==
  /\ mstate = "live"
  /\ \E index \in 0..target_fixels, i \in 0..(MaxSources - 1) :
       IF IndexInRange(M, index)
       THEN /\ Len(M[index]) < MapListLen
            /\ M' = [M EXCEPT ![index] = Append(@, i)]
            /\ fresh' = FALSE
            /\ UNCHANGED <<mstate, ndebug, source_fixels, target_fixels, result>>
       ELSE OutOfRange(result)
  /\ MapFrame

\* mapping[index](), which returns a reference to the list M[index], and
\* mapping[index].size(), of Value and ConstValue
MappingRead ==
  /\ mstate = "live"
  /\ \E index \in 0..target_fixels :
       IF IndexInRange(M, index)
       THEN /\ result' \in {[op |-> "list", val |-> <<index>>],
                            [op |-> "size", val |-> <<Len(M[index])>>]}
            /\ UNCHANGED <<mstate, ndebug, source_fixels, target_fixels, M, fresh>>
       ELSE OutOfRange([op |-> "garbage", val |-> << >>])
  /\ MapFrame

\* mapping[index][i] of Value and ConstValue
MappingReadAt ==
  /\ mstate = "live"
  /\ \E index \in 0..(target_fixels - 1), i \in 0..MapListLen :
       IF i < Len(M[index])
       THEN /\ result' = [op |-> "at", val |-> <<M[index][i + 1]>>]
            /\ UNCHANGED <<mstate, ndebug, source_fixels, target_fixels, M, fresh>>
       ELSE OutOfRange([op |-> "garbage", val |-> << >>])
  /\ MapFrame

\* mapping.size()
MappingSize ==
  /\ mstate = "live"
  /\ result' = [op |-> "mapsize", val |-> <<MapSize(M)>>]
  /\ UNCHANGED <<mstate, ndebug, source_fixels, target_fixels, M, fresh>>
  /\ MapFrame

MapNext ==
  \/ MappingConstruct
  \/ MappingAssign
  \/ MappingPushBack
  \/ MappingRead
  \/ MappingReadAt
  \/ MappingSize

(* ------------- matching pass of fixelcorrespondence run() -------------- *)
\* largest number of voxels of the image
MaxVoxels == 2
\* largest number of fixels of one dataset in one voxel
MaxPerVoxel == 2

Algorithms == {"all2all", "pairwise"}

Range(lo, n) == [j \in 1..n |-> lo + j - 1]

\* the algorithm All2All: every target fixel of the voxel gets every source fixel
All2All(s, t) == [j \in 1..t |-> Range(0, s)]

\* a one-to-one algorithm: target fixel j gets source fixel j when the voxel has one
Pairwise(s, t) == [j \in 1..t |-> IF j <= s THEN <<j - 1>> ELSE << >>]

\* Base::operator(): per target fixel of the voxel, the voxel-local source indices
Fragment(alg, s, t) == IF alg = "all2all" THEN All2All(s, t) ELSE Pairwise(s, t)

RECURSIVE SourceOffset(_, _)
\* global index of the first source fixel of voxel v
SourceOffset(layout, v) == IF v = 1 THEN 0 ELSE SourceOffset(layout, v - 1) + layout[v - 1].s

RECURSIVE TargetOffset(_, _)
\* global index of the first target fixel of voxel v
TargetOffset(layout, v) == IF v = 1 THEN 0 ELSE TargetOffset(layout, v - 1) + layout[v - 1].t

\* voxel-local source indices to global ones
Translate(list, offset) == [j \in 1..Len(list) |-> list[j] + offset]

MThreads == 1..mthreads

MIdle == [st |-> "idle", v |-> 0, frag |-> << >>, j |-> 0]

MatchFrame ==
  UNCHANGED <<f2fvars, persistvars, costvars, nearvars, thrvars, corrvars, lockvars, binvars,
              srcvars>>

\* a thread of the ThreadedLoop takes the next voxel, gathers its fixels and runs
\* the algorithm on it
MatchTake(w) ==
  /\ mworker[w].st = "idle"
  /\ nextVoxel <= Len(vox)
  /\ mworker' = [mworker EXCEPT ![w] =
       [st |-> "busy", v |-> nextVoxel,
        frag |-> Fragment(algorithm, vox[nextVoxel].s, vox[nextVoxel].t), j |-> 0]]
  /\ nextVoxel' = nextVoxel + 1
  /\ UNCHANGED <<vox, algorithm, mthreads, mapvars>>
  /\ MatchFrame

\* the thread writes the next entry of its voxel into the shared mapping
MatchWrite(w) ==
  /\ mworker[w].st = "busy"
  /\ mworker[w].j < vox[mworker[w].v].t
  /\ M' = MapAssign(M, TargetOffset(vox, mworker[w].v) + mworker[w].j,
                    Translate(mworker[w].frag[mworker[w].j + 1],
                              SourceOffset(vox, mworker[w].v)))
  /\ fresh' = FALSE
  /\ mworker' = [mworker EXCEPT ![w].j = @ + 1]
  /\ UNCHANGED <<vox, algorithm, mthreads, nextVoxel, mstate, ndebug, source_fixels,
                 target_fixels, result>>
  /\ MatchFrame

\* the thread has written every entry of its voxel
MatchDone(w) ==
  /\ mworker[w].st = "busy"
  /\ mworker[w].j = vox[mworker[w].v].t
  /\ mworker' = [mworker EXCEPT ![w] = MIdle]
  /\ UNCHANGED <<vox, algorithm, mthreads, nextVoxel, mapvars>>
  /\ MatchFrame

MatchNext ==
  \/ \E w \in MThreads : MatchTake(w)
  \/ \E w \in MThreads : MatchWrite(w)
  \/ \E w \in MThreads : MatchDone(w)

(* ------------------ Mapping::save, load and inverse -------------------- *)
\* the source-index lists of a mapping onto s source fixels
ListsOver(s) == UNION {[1..l -> 0..(s - 1)] : l \in 0..MaxListLen}

\* the entries 0..n-1 of m one after the other: the flat list of the data file
RECURSIVE Flatten(_, _)
Flatten(m, n) == IF n = 0 THEN << >> ELSE Flatten(m, n - 1) \o m[n - 1]

NoDirectory == [valid |-> FALSE, nsource |-> 0, index |-> << >>, data |-> << >>]

\* save (directory): the index file holds, per target fixel, the number of entries
\* of the flat list that belong to it and where they start; the data file is the
\* flat list of source-fixel indices
SaveMapping(m, s) ==
  [valid |-> TRUE,
   nsource |-> s,
   index |-> [t \in DOMAIN m |-> [count |-> Len(m[t]), offset |-> Len(Flatten(m, t))]],
   data |-> Flatten(m, MapSize(m))]

EntryAtStart(d, t) == SubSeq(d.data, 1, d.index[t].count)

\* the list that the index file delimits for entry t
EntryAt(d, t) == SubSeq(d.data, d.index[t].offset + 1, d.index[t].offset + d.index[t].count)

\* the number of times x occurs in the list
RECURSIVE CountIn(_, _)
CountIn(list, x) ==
  IF list = << >> THEN 0
  ELSE (IF Head(list) = x THEN 1 ELSE 0) + CountIn(Tail(list), x)

\* one entry of the scan of inverse(): t is appended to the entry of every index
\* of the list, in the order of the list
RECURSIVE ScanList(_, _, _)
ScanList(acc, list, t) ==
  IF list = << >> THEN acc
  ELSE ScanList([acc EXCEPT ![Head(list)] = Append(@, t)], Tail(list), t)

RECURSIVE ScanListOnce(_, _, _)
ScanListOnce(acc, list, t) ==
  IF list = << >> THEN acc
  ELSE ScanListOnce([acc EXCEPT ![Head(list)] = IF CountIn(@, t) > 0 THEN @ ELSE Append(@, t)],
                    Tail(list), t)

\* the scan of inverse() over the entries 0..n-1
RECURSIVE ScanEntries(_, _, _)
ScanEntries(m, s, n) ==
  IF n = 0 THEN [k \in 0..(s - 1) |-> << >>]
  ELSE ScanList(ScanEntries(m, s, n - 1), m[n - 1], n - 1)

RECURSIVE ScanEntriesOnce(_, _, _)
ScanEntriesOnce(m, s, n) ==
  IF n = 0 THEN [k \in 0..(s - 1) |-> << >>]
  ELSE ScanListOnce(ScanEntriesOnce(m, s, n - 1), m[n - 1], n - 1)

InverseOnce(m, s) == ScanEntriesOnce(m, s, MapSize(m))

\* inverse(): one entry per source fixel, filled by one scan of the target entries
Inverse(m, s) == ScanEntries(m, s, MapSize(m))

\* the entries load() rebuilds from the index and data files
LoadEntries(d) == [t \in DOMAIN d.index |-> EntryAt(d, t)]

NotLoaded == [st |-> "none", inverse |-> FALSE, source_fixels |-> 0, target_fixels |-> 0,
              M |-> << >>]

\* load (directory, import_inverse): the persisted lists are the mapping or, with
\* import_inverse, a source-to-target mapping of which the transpose is built
LoadMapping(d, import_inverse) ==
  IF import_inverse
  THEN [st |-> "ok", inverse |-> TRUE,
        source_fixels |-> Cardinality(DOMAIN d.index), target_fixels |-> d.nsource,
        M |-> Inverse(LoadEntries(d), d.nsource)]
  ELSE [st |-> "ok", inverse |-> FALSE,
        source_fixels |-> d.nsource, target_fixels |-> Cardinality(DOMAIN d.index),
        M |-> LoadEntries(d)]

NoInverse == [valid |-> FALSE, val |-> << >>]

PersistFrame ==
  UNCHANGED <<f2fvars, mapvars, matchvars, costvars, nearvars, thrvars, corrvars, lockvars,
              binvars, srcvars>>

\* mapping.save (directory)
MappingSave ==
  /\ mstate = "live"
  /\ disk' = SaveMapping(M, source_fixels)
  /\ UNCHANGED <<loaded, inv>>
  /\ PersistFrame

\* Mapping::load (directory, import_inverse), which throws on a directory that
\* holds no mapping
MappingLoad ==
  /\ \E import_inverse \in BOOLEAN :
       loaded' = IF disk.valid THEN LoadMapping(disk, import_inverse)
                 ELSE [NotLoaded EXCEPT !.st = "error", !.inverse = import_inverse]
  /\ UNCHANGED <<disk, inv>>
  /\ PersistFrame

\* mapping.inverse()
MappingInverse ==
  /\ mstate = "live"
  /\ inv' = [valid |-> TRUE, val |-> Inverse(M, source_fixels)]
  /\ UNCHANGED <<disk, loaded>>
  /\ PersistFrame

PersistNext ==
  \/ MappingSave
  \/ MappingLoad
  \/ MappingInverse

(* ------------------------------- DP2Cost ------------------------------- *)
(* A float is m * 2^e with a 24-bit significand: m = 0, or 2^23 <= m < 2^24. *)
(* Every operation rounds to nearest, ties to even, as the float operations  *)
(* of dp2cost.h do; all values of DP2Cost are non-negative, and the          *)
(* exponent range of float is not reached by the values used here.           *)
B12 == 2^12

B23 == 2^23

B24 == 2^24

F32Zero == [m |-> 0, e |-> 0]

F32One == [m |-> B23, e |-> -23]

RECURSIVE BitLen(_)
BitLen(n) == IF n = 0 THEN 0 ELSE 1 + BitLen(n \div 2)

\* m * 2^e with 0 < m < 2^24, brought to a 24-bit significand
RECURSIVE F32Up(_, _)
F32Up(m, e) == IF m >= B23 THEN [m |-> m, e |-> e] ELSE F32Up(2 * m, e - 1)

\* q * 2^e, with what was cut off below q being more than, exactly or less than
\* half a unit of q
F32RoundEven(q, e, above, tie) ==
  LET q1 == IF above \/ (tie /\ q % 2 = 1) THEN q + 1 ELSE q
  IN  IF q1 = B24 THEN [m |-> B23, e |-> e + 1] ELSE [m |-> q1, e |-> e]

\* (hi * 2^24 + lo) * 2^e rounded to a float
F32Round(hi, lo, e) ==
  IF hi = 0 THEN (IF lo = 0 THEN F32Zero ELSE F32Up(lo, e))
  ELSE LET k == BitLen(hi)
       IN  IF k <= 24
           THEN LET p == 2^k
                    rem == lo % p
                IN  F32RoundEven(hi * 2^(24 - k) + lo \div p, e + k,
                                 rem > p \div 2, rem = p \div 2)
           ELSE LET p == 2^(k - 24)
                    rem == hi % p
                IN  F32RoundEven(hi \div p, e + k,
                                 rem > p \div 2 \/ (rem = p \div 2 /\ lo > 0),
                                 rem = p \div 2 /\ lo = 0)

\* float (n) of an unsigned integer
F32FromNat(n) == F32Round(n \div B24, n % B24, 0)

\* a * b
F32Mul(a, b) ==
  IF a.m = 0 \/ b.m = 0 THEN F32Zero
  ELSE LET a1 == a.m \div B12
           a0 == a.m % B12
           b1 == b.m \div B12
           b0 == b.m % B12
           mid == a1 * b0 + a0 * b1
           t == (mid % B12) * B12 + a0 * b0
       IN  F32Round(a1 * b1 + mid \div B12 + t \div B24, t % B24, a.e + b.e)

\* a <= b
F32LessEq(a, b) ==
  \/ a.m = 0
  \/ b.m # 0 /\ (a.e < b.e \/ (a.e = b.e /\ a.m <= b.m))

\* m * 2^d as the pair <<hi, lo>> of hi * 2^24 + lo, for d <= 25
F32Shift(m, d) ==
  IF d >= 24 THEN <<m * 2^(d - 24), 0>>
  ELSE <<m \div 2^(24 - d), (m % 2^(24 - d)) * 2^d>>

\* a + b
F32Add(a, b) ==
  IF a.m = 0 THEN b
  ELSE IF b.m = 0 THEN a
  ELSE LET x == IF a.e >= b.e THEN a ELSE b
           y == IF a.e >= b.e THEN b ELSE a
           d == x.e - y.e
           w == F32Shift(x.m, d)
           lo == w[2] + y.m
       IN  IF d > 24 THEN x
           ELSE F32Round(w[1] + lo \div B24, lo % B24, y.e)

\* a - b, for a >= b
F32Sub(a, b) ==
  IF b.m = 0 THEN a
  ELSE LET d == a.e - b.e
           w == F32Shift(a.m, d)
       IN  IF d > 25 THEN a
           ELSE IF w[2] >= b.m THEN F32Round(w[1], w[2] - b.m, b.e)
           ELSE F32Round(w[1] - 1, w[2] + B24 - b.m, b.e)

\* std::floor of a float, as size_t
F32Floor(a) ==
  IF a.m = 0 THEN 0
  ELSE IF a.e >= 0 THEN a.m * 2^a.e
  ELSE IF a.e <= -24 THEN 0
  ELSE a.m \div 2^(-a.e)

\* float (std::tan (std::acos (double (bin) / double (resolution)))), the values
\* the C library gives for the table entries that the calls below read
TanAcos ==
  <<1, 0>> :> [m |-> 15209652, e |-> 30] @@
  <<1, 1>> :> [m |-> 0, e |-> 0] @@
  <<2, 0>> :> [m |-> 15209652, e |-> 30] @@
  <<2, 1>> :> [m |-> 14529495, e |-> -23] @@
  <<2, 2>> :> [m |-> 0, e |-> 0] @@
  <<3, 0>> :> [m |-> 15209652, e |-> 30] @@
  <<3, 1>> :> [m |-> 11863283, e |-> -22] @@
  <<3, 2>> :> [m |-> 9378749, e |-> -23] @@
  <<3, 3>> :> [m |-> 0, e |-> 0] @@
  <<1000, 0>> :> [m |-> 15209652, e |-> 30] @@
  <<1000, 1>> :> [m |-> 16383992, e |-> -14] @@
  <<1000, 14>> :> [m |-> 9361368, e |-> -17] @@
  <<1000, 15>> :> [m |-> 8737150, e |-> -17] @@
  <<1000, 250>> :> [m |-> 16244470, e |-> -22] @@
  <<1000, 251>> :> [m |-> 16175427, e |-> -22] @@
  <<1000, 500>> :> [m |-> 14529495, e |-> -23] @@
  <<1000, 501>> :> [m |-> 14490814, e |-> -23] @@
  <<1000, 750>> :> [m |-> 14796114, e |-> -24] @@
  <<1000, 751>> :> [m |-> 14751042, e |-> -24] @@
  <<1000, 999>> :> [m |-> 12013811, e |-> -28] @@
  <<1000, 1000>> :> [m |-> 0, e |-> 0] @@
  <<16777217, 0>> :> [m |-> 15209652, e |-> 30] @@
  <<16777217, 1>> :> [m |-> 8388608, e |-> 1] @@
  <<16777217, 234881>> :> [m |-> 9361370, e |-> -17] @@
  <<16777217, 234882>> :> [m |-> 9361330, e |-> -17] @@
  <<16777217, 4194304>> :> [m |-> 16244471, e |-> -22] @@
  <<16777217, 4194305>> :> [m |-> 16244466, e |-> -22] @@
  <<16777217, 8388608>> :> [m |-> 14529496, e |-> -23] @@
  <<16777217, 8388609>> :> [m |-> 14529494, e |-> -23] @@
  <<16777217, 12582912>> :> [m |-> 14796116, e |-> -24] @@
  <<16777217, 12582913>> :> [m |-> 14796113, e |-> -24] @@
  <<16777217, 16777215>> :> [m |-> 8388609, e |-> -34] @@
  <<16777217, 16777216>> :> [m |-> 11863283, e |-> -35] @@
  <<16777217, 16777217>> :> [m |-> 0, e |-> 0] @@
  <<16777219, 0>> :> [m |-> 15209652, e |-> 30] @@
  <<16777219, 1>> :> [m |-> 8388609, e |-> 1] @@
  <<16777219, 234881>> :> [m |-> 9361371, e |-> -17] @@
  <<16777219, 234882>> :> [m |-> 9361331, e |-> -17] @@
  <<16777219, 4194305>> :> [m |-> 16244469, e |-> -22] @@
  <<16777219, 4194306>> :> [m |-> 16244464, e |-> -22] @@
  <<16777219, 8388610>> :> [m |-> 14529494, e |-> -23] @@
  <<16777219, 8388611>> :> [m |-> 14529492, e |-> -23] @@
  <<16777219, 12582915>> :> [m |-> 14796112, e |-> -24] @@
  <<16777219, 12582916>> :> [m |-> 14796109, e |-> -24] @@
  <<16777219, 16777218>> :> [m |-> 11863283, e |-> -35] @@
  <<16777219, 16777219>> :> [m |-> 0, e |-> 0]

\* the resolutions a DP2Cost is constructed with: small tables, the default, and
\* two resolutions that a float does not hold
Resolutions == {1, 2, 3, 1000, 16777217, 16777219}

\* the values dp of the calls: 0, 1/4, 1/2, 3/4, two neighbouring floats near
\* 0.014, the largest float below 1, and 1
Queries ==
  {F32Zero,
   [m |-> 8388608, e |-> -25],
   [m |-> 8388608, e |-> -24],
   [m |-> 12582912, e |-> -24],
   [m |-> 15032420, e |-> -30],
   [m |-> 15032421, e |-> -30],
   [m |-> 16777215, e |-> -24],
   F32One}

\* what an entry read past the end of the table can hold
TableGarbage == {"zero", "finite", "nan"}

NoTable == [st |-> "none", resolution |-> 0, multiplier |-> F32Zero, size |-> 0,
            asserts |-> FALSE]

\* DP2Cost (resolution): data (resolution+2), multiplier (resolution)
NewTable(resolution, asserts) ==
  [st |-> "built", resolution |-> resolution, multiplier |-> F32FromNat(resolution),
   size |-> resolution + 2, asserts |-> asserts]

\* data[bin] as the constructor leaves it: the table is not held in the state,
\* its entries are computed when read
Data(t, bin) ==
  IF bin = t.resolution + 1 THEN F32Zero ELSE TanAcos[<<t.resolution, bin>>]

\* const float position = dp * multiplier
Position(t, dp) == F32Mul(dp, t.multiplier)

\* const size_t lower = std::floor (position)
Lower(t, dp) == F32Floor(Position(t, dp))

\* const float mu = position - float(lower)
Mu(t, dp) == F32Sub(Position(t, dp), F32FromNat(Lower(t, dp)))

\* both table positions that operator() reads are entries of the table
ReadsInTable(t, dp) == Lower(t, dp) + 1 < t.size

\* ((1.0f-mu) * data[lower]) + (mu * data[lower+1])
Interpolate(t, dp) ==
  LET lower == Lower(t, dp)
      mu == Mu(t, dp)
  IN  F32Add(F32Mul(F32Sub(F32One, mu), Data(t, lower)), F32Mul(mu, Data(t, lower + 1)))

\* the same with the entry at lower+1 read past the end of the table
InterpolatePastEnd(t, dp, g) ==
  LET lower == Lower(t, dp)
      mu == Mu(t, dp)
      first == F32Mul(F32Sub(F32One, mu), IF lower < t.size THEN Data(t, lower) ELSE F32One)
  IN  IF g = "nan" THEN [st |-> "nan", result |-> F32Zero]
      ELSE IF g = "zero" \/ mu.m = 0 THEN [st |-> "ok", result |-> first]
      ELSE [st |-> "ok", result |-> F32Add(first, mu)]

CostFrame ==
  UNCHANGED <<f2fvars, mapvars, matchvars, persistvars, nearvars, thrvars, corrvars,
              lockvars, binvars, srcvars>>

\* DP2Cost cost (resolution), in a build with or without assertions
DP2CostConstruct ==
  /\ table.st = "none"
  /\ \E resolution \in Resolutions, asserts \in BOOLEAN :
       table' = NewTable(resolution, asserts)
  /\ UNCHANGED query
  /\ CostFrame

\* cost (dp), for dp in [0,1]: the assertion on dp holds; a read past the end of
\* the table ends a build with assertions, and otherwise crashes or reads garbage
DP2CostCall ==
  /\ table.st = "built"
  /\ \E dp \in Queries :
       LET lower == Lower(table, dp)
           call == [dp |-> dp, lower |-> lower, mu |-> Mu(table, dp)]
           done(r) == query' = IF Len(query) < 2 THEN Append(query, call @@ r)
                                ELSE <<query[2], call @@ r>>
       IN  IF ReadsInTable(table, dp)
           THEN /\ done([st |-> "ok", result |-> Interpolate(table, dp)])
                /\ UNCHANGED table
           ELSE IF table.asserts
           THEN /\ done([st |-> "abort", result |-> F32Zero])
                /\ table' = [table EXCEPT !.st = "abort"]
           ELSE \/ /\ done([st |-> "crash", result |-> F32Zero])
                   /\ table' = [table EXCEPT !.st = "crash"]
                \/ /\ \E g \in TableGarbage : done(InterpolatePastEnd(table, dp, g))
                   /\ UNCHANGED table
  /\ CostFrame

CostNext ==
  \/ DP2CostConstruct
  \/ DP2CostCall

(* -------------------------- algorithm "nearest" ------------------------ *)
\* largest number of source fixels and of target fixels of the voxel of a call
MaxNearSources == 2

MaxNearTargets == 2

\* the values of option -angle (a float between 0 and 90) that are tried
AngleOptions == {0, 45, 90}

\* the angles between a target fixel and a source fixel that are tried, in degrees
Angles == {0, 45, 90}

\* the first of the first n source fixels with the smallest angle, counted from 1;
\* 0 when there is none
RECURSIVE Closest(_, _)
Closest(row, n) ==
  IF n = 0 THEN 0
  ELSE LET best == Closest(row, n - 1)
       IN  IF best = 0 \/ row[n] < row[best] THEN n ELSE best

WithinAngleOrAt(angle, max) == angle <= max

\* the nearest source fixel is taken when its angle is less than the threshold
WithinAngle(angle, max) == angle < max

\* Nearest::operator(): per target fixel of the voxel, the nearest source fixel of
\* the voxel (as its index in the voxel) or nothing
NearestMatch(ang, max) ==
  [j \in 1..Len(ang) |->
     LET best == Closest(ang[j], Len(ang[j]))
     IN  IF best > 0 /\ WithinAngle(ang[j][best], max) THEN <<best - 1>> ELSE << >>]

NearFrame ==
  UNCHANGED <<f2fvars, mapvars, matchvars, persistvars, costvars, thrvars, corrvars,
              lockvars, binvars, srcvars>>

\* case 0 of run(): new Nearest (get_option_value ("angle", ...))
NearestConstruct ==
  /\ maxangle = -1
  /\ maxangle' \in AngleOptions
  /\ UNCHANGED <<angles, assigned>>
  /\ NearFrame

NotCalled == [valid |-> FALSE, val |-> << >>]

\* the voxels of up to MaxNearSources source fixels and MaxNearTargets target fixels
Voxels ==
  UNION {[1..t -> [1..s -> Angles]] : s \in 0..MaxNearSources, t \in 0..MaxNearTargets}

\* the call of the algorithm on the voxel
NearestCall ==
  /\ maxangle # -1
  /\ ~assigned.valid
  /\ assigned' = [valid |-> TRUE, val |-> NearestMatch(angles, maxangle)]
  /\ UNCHANGED <<maxangle, angles>>
  /\ NearFrame

NearNext ==
  \/ NearestConstruct
  \/ NearestCall

(* ----------------------------- mrthreshold ---------------------------- *)
\* largest number of voxels of a volume of the input image
MaxVolumeSize == 2

\* largest number of volumes of a 4D input image
MaxVolumes == 2

\* largest count given to -top and -bottom
MaxCount == 2

\* the voxel values of the input images
ImageValues == {Flt(0), Flt(1), Flt(2), NaN}

\* the input images: 3D (one volume) or 4D, every volume of the same size
Images ==
  UNION {[ndim : {3}, vols : [1..1 -> [1..n -> ImageValues]]] : n \in 1..MaxVolumeSize}
  \cup
  UNION {[ndim : {4}, vols : [1..v -> [1..n -> ImageValues]]] :
           v \in 1..MaxVolumes, n \in 1..MaxVolumeSize}

\* the values of -abs that to<default_type> returns and type_float() lets pass
AbsValues == {Flt(1), Inf(1)}

\* the values of -percentile that are tried
Percentiles == {Flt(0), Flt(50), Flt(100)}

\* what estimate_optimal_threshold can return
OptimalThresholds == {Flt(0), Fin(1, 2)}

\* what an entry read past the end of data can hold
DataGarbage == {Flt(0), Flt(1), NaN}

\* std::isfinite
IsFinite(x) == x.k = "fin"

\* the value converted to bool: if (in.value())
NonZero(x) == ~(x.k = "fin" /\ x.n = 0)

\* a == b of two floating-point values
FEqual(a, b) == a.k # "nan" /\ a = b

\* a < b of two floating-point values, infinities included
FLessInf(a, b) ==
  IF a.k = "nan" \/ b.k = "nan" THEN FALSE
  ELSE IF a.k = "inf" THEN a.n < 0 /\ b # a
  ELSE IF b.k = "inf" THEN b.n > 0
  ELSE FLess(a, b)

\* a >= b of two floating-point values
FGreaterEq(a, b) == a.k # "nan" /\ b.k # "nan" /\ ~FLessInf(a, b)

\* the options read at lines 404-407: an option that is not given has the default
\* of get_option_value
Mechanisms ==
  [abs : AbsValues \cup {NaN}, percentile : Percentiles \cup {NaN},
   bottom : {-1} \cup 1..MaxCount, top : {-1} \cup 1..MaxCount]

\* the number of the options -abs, -percentile, -bottom, -top on the command line
NumGiven(o) ==
  (IF o.abs # NaN THEN 1 ELSE 0) + (IF o.percentile # NaN THEN 1 ELSE 0)
    + (IF o.bottom # -1 THEN 1 ELSE 0) + (IF o.top # -1 THEN 1 ELSE 0)

\* num_explicit_mechanisms
NumExplicitMechanisms(o) ==
  (IF IsFinite(o.abs) THEN 1 ELSE 0) + (IF IsFinite(o.percentile) THEN 1 ELSE 0)
    + (IF o.bottom >= 0 THEN 1 ELSE 0) + (IF o.top >= 0 THEN 1 ELSE 0)

\* if (num_explicit_mechanisms > 1)
TooManyMechanisms(o) == NumExplicitMechanisms(o) > 1

\* the condition under which get_data() takes a value
Valid(v, m, ignore_zero) == m /\ (IF ignore_zero THEN NonZero(v) ELSE IsFinite(v))

\* get_data(): the values of the block that the mask and -ignorezero let through,
\* in the order of the loop; msk is << >> when there is no mask
RECURSIVE GetData(_, _, _, _)
GetData(vals, msk, ignore_zero, n) ==
  IF n = 0 THEN << >>
  ELSE LET rest == GetData(vals, msk, ignore_zero, n - 1)
       IN  IF Valid(vals[n], msk = << >> \/ msk[n], ignore_zero)
           THEN Append(rest, vals[n]) ELSE rest

\* the values in ascending order (for values that < orders)
RECURSIVE Sorted(_)
Sorted(data) ==
  IF data = << >> THEN << >>
  ELSE LET rest == Sorted(Tail(data))
           below == SelectSeq(rest, LAMBDA x : FLessInf(x, Head(data)))
           above == SelectSeq(rest, LAMBDA x : ~FLessInf(x, Head(data)))
       IN  below \o <<Head(data)>> \o above

\* what data[index] can hold after std::nth_element (begin, begin + index, end):
\* the element of that rank, or any element when a NaN leaves the values without
\* an order
NthElement(data, index) ==
  IF \E i \in 1..Len(data) : data[i].k = "nan"
  THEN {data[i] : i \in 1..Len(data)}
  ELSE {Sorted(data)[index + 1]}

\* std::max_element and std::min_element: one scan with operator<
RECURSIVE MaxElement(_, _)
MaxElement(data, n) ==
  IF n = 1 THEN data[1]
  ELSE LET largest == MaxElement(data, n - 1)
       IN  IF FLessInf(largest, data[n]) THEN data[n] ELSE largest

RECURSIVE MinElement(_, _)
MinElement(data, n) ==
  IF n = 1 THEN data[1]
  ELSE LET smallest == MinElement(data, n - 1)
       IN  IF FLessInf(data[n], smallest) THEN data[n] ELSE smallest

\* an outcome of calculate(): an exception, or a threshold and whether the
\* degeneracy flag was raised
Threw(msg) == [err |-> msg, threshold |-> NaN, degenerate |-> FALSE]

Returned(t, deg) == [err |-> "", threshold |-> t, degenerate |-> deg]

NoData == "No valid input data found; unable to determine threshold"

TooFew == "Number of valid input image values less than number of voxels requested"

\* a + b and a * b of two floating-point values, infinities included
FAddInf(a, b) ==
  IF a.k = "nan" \/ b.k = "nan" THEN NaN
  ELSE IF a.k = "inf" THEN (IF b.k = "inf" /\ b.n # a.n THEN NaN ELSE a)
  ELSE IF b.k = "inf" THEN b
  ELSE FAdd(a, b)

FMulInf(a, b) ==
  IF a.k = "nan" \/ b.k = "nan" THEN NaN
  ELSE IF a.k = "inf" \/ b.k = "inf"
  THEN (IF a.n = 0 \/ b.n = 0 THEN NaN ELSE Inf(Sign(a.n) * Sign(b.n)))
  ELSE FMul(a, b)

\* interp_index of line 223
InterpIndex(data, percentile) == FMul(FMul(Fin(1, 100), percentile), Flt(Len(data) - 1))

\* lower_index of line 224: std::floor (interp_index)
LowerIndex(data, percentile) ==
  InterpIndex(data, percentile).n \div InterpIndex(data, percentile).d

\* the branch of calculate() for -percentile strictly between 0 and 100
Interpolated(data, percentile) ==
  LET interp_index == InterpIndex(data, percentile)
      lower_index == LowerIndex(data, percentile)
      mu == FAdd(interp_index, Flt(-lower_index))
      uppers == IF lower_index + 1 < Len(data) THEN NthElement(data, lower_index + 1)
                ELSE DataGarbage
  IN  {Returned(FAddInf(FMulInf(FAdd(Flt(1), FMul(Flt(-1), mu)), lower_value),
                        FMulInf(mu, upper_value)), FALSE) :
         lower_value \in NthElement(data, lower_index), upper_value \in uppers}

\* const ssize_t index of the branch for -bottom and -top
Index(n, bottom, top) == IF bottom >= 0 THEN bottom - 1 ELSE n - top

\* the two tests that raise issue_degeneracy_warning
NeighbourEqual(index, n, threshold_float, below, above) ==
  \/ index > 0 /\ FEqual(below, threshold_float)
  \/ index < n - 1 /\ FEqual(above, threshold_float)

\* the branch of calculate() for -bottom and -top
Ranked(data, bottom, top) ==
  LET n == Len(data)
      index == Index(n, bottom, top)
  IN  IF index < 0 \/ index >= n THEN {Threw(TooFew)}
      ELSE {Returned(threshold_float,
                     NeighbourEqual(index, n, threshold_float, below, above)) :
              threshold_float \in NthElement(data, index),
              below \in (IF index > 0 THEN NthElement(data, index - 1) ELSE {NaN}),
              above \in (IF index < n - 1 THEN NthElement(data, index + 1) ELSE {NaN})}

\* calculate(): the outcomes for a block of values
Calculate(vals, msk, o) ==
  LET data == GetData(vals, msk, o.ignore_zero, Len(vals))
  IN  IF IsFinite(o.abs) THEN {Returned(o.abs, FALSE)}
      ELSE IF IsFinite(o.percentile)
      THEN IF data = << >> THEN {Threw(NoData)}
           ELSE IF o.percentile = Flt(100) THEN {Returned(MaxElement(data, Len(data)), FALSE)}
           ELSE IF o.percentile = Flt(0) THEN {Returned(MinElement(data, Len(data)), FALSE)}
           ELSE Interpolated(data, o.percentile)
      ELSE IF o.bottom >= 0 \/ o.top >= 0
      THEN IF data = << >> THEN {Threw(NoData)} ELSE Ranked(data, o.bottom, o.top)
      ELSE {Returned(t, FALSE) : t \in OptimalThresholds}

AppliedInvertsAll(v, threshold, o) ==
  LET nonfinite == IF o.use_nan THEN NaN ELSE Flt(0)
      above == IF o.invert THEN nonfinite ELSE Flt(1)
      below == IF o.invert THEN Flt(1) ELSE nonfinite
  IN  IF ~IsFinite(v) THEN below
      ELSE IF o.bottom < 0
      THEN (IF FGreaterEq(v, threshold) THEN above ELSE below)
      ELSE (IF FLessInf(threshold, v) THEN above ELSE below)

AppliedEqualAsAbove(v, threshold, o) ==
  LET nonfinite == IF o.use_nan THEN NaN ELSE Flt(0)
      above == IF o.invert THEN nonfinite ELSE Flt(1)
      below == IF o.invert THEN Flt(1) ELSE nonfinite
  IN  IF ~IsFinite(v) THEN nonfinite
      ELSE IF FGreaterEq(v, threshold) THEN above ELSE below

\* the value apply() writes for one input value
Applied(v, threshold, o) ==
  LET nonfinite == IF o.use_nan THEN NaN ELSE Flt(0)
      above == IF o.invert THEN nonfinite ELSE Flt(1)
      below == IF o.invert THEN Flt(1) ELSE nonfinite
  IN  IF ~IsFinite(v) THEN nonfinite
      ELSE IF o.bottom < 0
      THEN (IF FGreaterEq(v, threshold) THEN above ELSE below)
      ELSE (IF FLessInf(threshold, v) THEN above ELSE below)

\* the messages of run() and of the functions it calls
TooManyMessage == "Cannot specify more than one mechanism for threshold selection"

ComplexMessage == "Cannot perform thresholding directly on complex image data"

MaskMessage == "Dimensions of mask image do not match those of main image"

NonVoxelMessage == "Automatic thresholding can only be performed for voxel data"

DegeneracyMessage == "Duplicate image values surrounding threshold"

NoOptions ==
  [abs |-> NaN, percentile |-> NaN, bottom |-> -1, top |-> -1, to_cout |-> FALSE,
   all_volumes |-> FALSE, ignore_zero |-> FALSE, use_nan |-> FALSE, invert |-> FALSE,
   mask |-> FALSE]

NotOpened == [valid |-> FALSE, ndim |-> 0, vols |-> << >>]

\* the volumes one after the other: the order of Loop (in)
RECURSIVE Block(_, _)
Block(vols, n) == IF n = 0 THEN << >> ELSE Block(vols, n - 1) \o vols[n]

\* Adapter::Replicate of the 3D mask over n volumes
RECURSIVE Replicate(_, _)
Replicate(m, n) == IF n = 0 \/ m = << >> THEN << >> ELSE Replicate(m, n - 1) \o m

ThrFrame ==
  UNCHANGED <<f2fvars, mapvars, matchvars, persistvars, costvars, nearvars, corrvars,
              lockvars, binvars, srcvars>>

\* run(), lines 404-413: the options that select the mechanism
ThrRunOptions ==
  /\ tpc = "options"
  /\ \E m \in Mechanisms :
       /\ topt' = [topt EXCEPT !.abs = m.abs, !.percentile = m.percentile,
                               !.bottom = m.bottom, !.top = m.top]
       /\ IF TooManyMechanisms(m)
          THEN tpc' = "error" /\ log' = Append(log, TooManyMessage)
          ELSE tpc' = "open" /\ log' = log
  /\ UNCHANGED <<image, mask, out, cout, volume, thresholds, issue_degeneracy_warning>>
  /\ ThrFrame

\* run(), lines 415-418: the input image is opened
ThrRunOpen ==
  /\ tpc = "open"
  /\ \/ /\ tpc' = "error"
        /\ log' = Append(log, ComplexMessage)
        /\ UNCHANGED image
     \/ /\ \E img \in Images : image' = [valid |-> TRUE, ndim |-> img.ndim, vols |-> img.vols]
        /\ tpc' = "flags"
        /\ log' = log
  /\ UNCHANGED <<topt, mask, out, cout, volume, thresholds, issue_degeneracy_warning>>
  /\ ThrFrame

\* the warnings of lines 429-457 for the options o
FlagWarnings(o) ==
  (IF IsFinite(o.abs) /\ o.ignore_zero THEN <<"-ignorezero option has no effect">> ELSE << >>)
  \o (IF IsFinite(o.abs) /\ o.mask THEN <<"-mask option has no effect">> ELSE << >>)
  \o (IF ~IsFinite(o.abs) /\ NumExplicitMechanisms(o) = 0 /\ o.ignore_zero
      THEN <<"Option -ignorezero ignored">> ELSE << >>)
  \o (IF o.to_cout /\ o.invert THEN <<"Option -invert ignored">> ELSE << >>)
  \o (IF o.to_cout /\ o.use_nan THEN <<"Option -nan ignored">> ELSE << >>)

\* run(), lines 420-457: the remaining options, the mask and the warnings
ThrRunFlags ==
  /\ tpc = "flags"
  /\ \E f \in [to_cout : BOOLEAN, all_volumes : BOOLEAN, ignore_zero : BOOLEAN,
               use_nan : BOOLEAN, invert : BOOLEAN, mask : BOOLEAN] :
       LET o == [topt EXCEPT !.to_cout = f.to_cout, !.all_volumes = f.all_volumes,
                             !.ignore_zero = f.ignore_zero, !.use_nan = f.use_nan,
                             !.invert = f.invert, !.mask = f.mask]
           opens == ~IsFinite(o.abs) /\ o.mask
           automatic == ~IsFinite(o.abs) /\ NumExplicitMechanisms(o) = 0
       IN  /\ topt' = o
           /\ \/ /\ opens
                 /\ tpc' = "error"
                 /\ log' = Append(log, MaskMessage)
                 /\ UNCHANGED mask
              \/ /\ automatic
                 /\ IF opens
                    THEN \E m \in [1..Len(image.vols[1]) -> BOOLEAN] : mask' = Opened(m)
                    ELSE UNCHANGED mask
                 /\ tpc' = "error"
                 /\ log' = Append(log \o (IF o.ignore_zero THEN <<"Option -ignorezero ignored">>
                                          ELSE << >>), NonVoxelMessage)
              \/ /\ IF opens
                    THEN \E m \in [1..Len(image.vols[1]) -> BOOLEAN] : mask' = Opened(m)
                    ELSE UNCHANGED mask
                 /\ tpc' = "execute"
                 /\ log' = log \o FlagWarnings(o)
  /\ UNCHANGED <<image, out, cout, volume, thresholds, issue_degeneracy_warning>>
  /\ ThrFrame

\* execute(), lines 353-364 and the choice of the branch at lines 367 and 388
ThrExecute ==
  /\ tpc = "execute"
  /\ out' = IF topt.to_cout THEN out
            ELSE [valid |-> TRUE,
                  vols |-> [v \in 1..Len(image.vols) |->
                              [i \in 1..Len(image.vols[v]) |-> Flt(0)]]]
  /\ volume' = 1
  /\ tpc' = IF image.ndim > 3 /\ ~topt.all_volumes THEN "loop" ELSE "block"
  /\ log' = IF image.ndim <= 3 /\ topt.all_volumes
            THEN Append(log, "Option -allvolumes ignored") ELSE log
  /\ UNCHANGED <<topt, image, mask, cout, thresholds, issue_degeneracy_warning>>
  /\ ThrFrame

\* calculate() and apply() on the values vals, of which the output goes to the
\* volumes from..to of the output image
Process(vals, msk, from, to, next) ==
  \E r \in Calculate(vals, msk, topt) :
    IF r.err # ""
    THEN /\ tpc' = "error"
         /\ log' = Append(log, r.err)
         /\ UNCHANGED <<out, cout, volume, thresholds, issue_degeneracy_warning>>
    ELSE /\ thresholds' = Append(thresholds, r.threshold)
         /\ issue_degeneracy_warning' = (issue_degeneracy_warning \/ r.degenerate)
         /\ IF topt.to_cout
            THEN cout' = Append(cout, r.threshold) /\ out' = out
            ELSE /\ cout' = cout
                 /\ out' = [out EXCEPT !.vols =
                              [v \in 1..Len(image.vols) |->
                                 IF v >= from /\ v <= to
                                 THEN [i \in 1..Len(image.vols[v]) |->
                                         Applied(image.vols[v][i], r.threshold, topt)]
                                 ELSE @[v]]]
         /\ volume' = to + 1
         /\ tpc' = next
         /\ log' = log

\* execute(), lines 372-384: one volume of the per-volume loop
ThrLoopVolume ==
  /\ tpc = "loop"
  /\ volume <= Len(image.vols)
  /\ Process(image.vols[volume], mask.data, volume, volume, "loop")
  /\ UNCHANGED <<topt, image, mask>>
  /\ ThrFrame

\* execute(), line 386: the loop is over
ThrLoopReturn ==
  /\ tpc = "loop"
  /\ volume > Len(image.vols)
  /\ tpc' = "end"
  /\ UNCHANGED <<topt, image, mask, out, cout, volume, thresholds, issue_degeneracy_warning,
                 log>>
  /\ ThrFrame

\* execute(), lines 393-394: the whole image as a single block
ThrBlock ==
  /\ tpc = "block"
  /\ Process(Block(image.vols, Len(image.vols)), Replicate(mask.data, Len(image.vols)),
             1, Len(image.vols), "end")
  /\ UNCHANGED <<topt, image, mask>>
  /\ ThrFrame

\* run(), lines 464-467
ThrRunEnd ==
  /\ tpc = "end"
  /\ log' = IF issue_degeneracy_warning THEN Append(log, DegeneracyMessage) ELSE log
  /\ tpc' = "done"
  /\ UNCHANGED <<topt, image, mask, out, cout, volume, thresholds, issue_degeneracy_warning>>
  /\ ThrFrame

ThrNext ==
  \/ ThrRunOptions
  \/ ThrRunOpen
  \/ ThrRunFlags
  \/ ThrExecute
  \/ ThrLoopVolume
  \/ ThrLoopReturn
  \/ ThrBlock
  \/ ThrRunEnd

(* ------------------------ fixelcorrespondence run() -------------------- *)
\* the command lines: whether argument[2] exists, -force, -algorithm, -cost,
\* -remapped, and the number of voxels of the template image
Commands ==
  [exists : BOOLEAN, force : BOOLEAN, algorithm_index : 0..2, cost : BOOLEAN,
   remapped : BOOLEAN, voxels : 1..MaxVoxels, threads : 1..MaxWorkers]

NoCommand ==
  [exists |-> FALSE, force |-> FALSE, algorithm_index |-> 2, cost |-> FALSE,
   remapped |-> FALSE, voxels |-> 1, threads |-> 1]

NoAlgorithm == [constructed |-> FALSE, index |-> 2, cost_image |-> FALSE]

\* the algorithm objects: ISMRM2018 and NI2022 are given H_cost and own a cost
\* image, Nearest is given the angle only
NewAlgorithm(index) == [constructed |-> TRUE, index |-> index, cost_image |-> index # 0]

\* the message of lines 148-149
ExistsMessage(o) ==
  IF o.force THEN "Output target already exists (-force option cannot safely be applied)"
  ELSE "Output target already exists"

\* if (Path::exists (argument[2]))
OutputExistsUnlessForced(o) == o.exists /\ ~o.force

OutputExists(o) == o.exists

CostImageAlways(a) == TRUE

\* cost_image.valid()
CostImageValid(a) == a.cost_image

CorrFrame ==
  UNCHANGED <<f2fvars, mapvars, matchvars, persistvars, costvars, nearvars, thrvars,
              lockvars, binvars, srcvars>>

\* run(), lines 147-149
CorrRunExists ==
  /\ cpc = "start"
  /\ IF OutputExists(copt)
     THEN cpc' = "error" /\ cerr' = ExistsMessage(copt)
     ELSE cpc' = "header" /\ cerr' = cerr
  /\ UNCHANGED <<copt, calgorithm, cnext, cthread, matched, files, saved>>
  /\ CorrFrame

\* run(), lines 150-153: find_index_header throws when the directory of argument[1]
\* holds no index image
CorrRunHeader ==
  /\ cpc = "header"
  /\ \/ cpc' = "error" /\ cerr' = "Could not find index image in directory"
     \/ cpc' = "algorithm" /\ cerr' = cerr
  /\ UNCHANGED <<copt, calgorithm, cnext, cthread, matched, files, saved>>
  /\ CorrFrame

\* run(), lines 154-177: the switch that constructs the algorithm
CorrRunAlgorithm ==
  /\ cpc = "algorithm"
  /\ calgorithm' = NewAlgorithm(copt.algorithm_index)
  /\ cpc' = "matcher"
  /\ UNCHANGED <<copt, cnext, cthread, matched, files, saved, cerr>>
  /\ CorrFrame

\* run(), line 179: the Matcher opens the two fixel datasets, which can fail
CorrRunMatcher ==
  /\ cpc = "matcher"
  /\ \/ cpc' = "error" /\ cerr' = "Fixel datasets do not match"
     \/ cpc' = "loop" /\ cerr' = cerr
  /\ UNCHANGED <<copt, calgorithm, cnext, cthread, matched, files, saved>>
  /\ CorrFrame

\* ThreadedLoop (...).run (matcher, image): a thread takes the next voxel
CorrLoopTake(w) ==
  /\ cpc = "loop"
  /\ cthread[w] = 0
  /\ cnext <= copt.voxels
  /\ cthread' = [cthread EXCEPT ![w] = cnext]
  /\ cnext' = cnext + 1
  /\ UNCHANGED <<cpc, copt, calgorithm, matched, files, saved, cerr>>
  /\ CorrFrame

\* the thread has run the matcher on its voxel
CorrLoopMatch(w) ==
  /\ cpc = "loop"
  /\ cthread[w] # 0
  /\ matched' = matched \cup {cthread[w]}
  /\ cthread' = [cthread EXCEPT ![w] = 0]
  /\ UNCHANGED <<cpc, copt, calgorithm, cnext, files, saved, cerr>>
  /\ CorrFrame

\* run() of the ThreadedLoop returns when no voxel is left and every thread is done
CorrLoopJoin ==
  /\ cpc = "loop"
  /\ cnext > copt.voxels
  /\ \A w \in DOMAIN cthread : cthread[w] = 0
  /\ cpc' = "save"
  /\ UNCHANGED <<copt, calgorithm, cnext, cthread, matched, files, saved, cerr>>
  /\ CorrFrame

\* run(), line 184: matcher.get_mapping().save (argument[2])
CorrRunSave ==
  /\ cpc = "save"
  /\ files' = Append(files, "mapping")
  /\ saved' = matched
  /\ cpc' = "cost"
  /\ UNCHANGED <<copt, calgorithm, cnext, cthread, matched, cerr>>
  /\ CorrFrame

\* run(), lines 186-188, and Base::export_cost_image
CorrRunCost ==
  /\ cpc = "cost"
  /\ files' = IF copt.cost /\ CostImageValid(calgorithm) THEN Append(files, "cost") ELSE files
  /\ cpc' = "remapped"
  /\ UNCHANGED <<copt, calgorithm, cnext, cthread, matched, saved, cerr>>
  /\ CorrFrame

\* run(), lines 189-191
CorrRunRemapped ==
  /\ cpc = "remapped"
  /\ files' = IF copt.remapped THEN Append(files, "remapped") ELSE files
  /\ cpc' = "done"
  /\ UNCHANGED <<copt, calgorithm, cnext, cthread, matched, saved, cerr>>
  /\ CorrFrame

CorrNext ==
  \/ CorrRunExists
  \/ CorrRunHeader
  \/ CorrRunAlgorithm
  \/ CorrRunMatcher
  \/ \E w \in DOMAIN cthread : CorrLoopTake(w)
  \/ \E w \in DOMAIN cthread : CorrLoopMatch(w)
  \/ CorrLoopJoin
  \/ CorrRunSave
  \/ CorrRunCost
  \/ CorrRunRemapped

(* ----------------------------- SpatialLock ----------------------------- *)
\* largest coordinate of a position
MaxCoord == 1

\* largest threshold of an axis
MaxThreshold == 2

\* the positions handed to lockIfNotLocked and unlock
Positions == (0..MaxCoord) \X (0..MaxCoord) \X (0..MaxCoord)

\* the thresholds the three constructors set: SpatialLock(), SpatialLock (t) and
\* SpatialLock (tx, ty, tz) with one axis wider than the others
ThresholdSettings ==
  {<<0, 0, 0>>} \cup {<<t, t, t>> : t \in 1..MaxThreshold}
    \cup {<<MaxThreshold, 1, 1>>, <<1, MaxThreshold, 1>>, <<1, 1, MaxThreshold>>}

LockThreads == 1..MaxWorkers

\* the mutex can be taken
MutexIgnored == TRUE

MutexFree == mutex = 0

\* the test of line 70 on d = *it - pos
Near(centre, pos, t) ==
  /\ Abs(centre[1] - pos[1]) < t[1]
  /\ Abs(centre[2] - pos[2]) < t[2]
  /\ Abs(centre[3] - pos[3]) < t[3]

\* the loop of lines 68-72 finds a centre that makes the call return false
Blocked(centres, pos, t) == \E centre \in centres : Near(centre, pos, t)

NotCalling == [pc |-> "idle", pos |-> <<0, 0, 0>>, ret |-> FALSE, before |-> {}]

LockFrame ==
  UNCHANGED <<f2fvars, mapvars, matchvars, persistvars, costvars, nearvars, thrvars,
              corrvars, binvars, srcvars>>

\* lockIfNotLocked (pos), line 66: the lock_guard takes the mutex
LockBegin(w) ==
  /\ caller[w].pc = "idle"
  /\ MutexFree
  /\ \E pos \in Positions :
       caller' = [caller EXCEPT ![w] = [pc |-> "scan", pos |-> pos, ret |-> FALSE,
                                        before |-> lockcentres]]
  /\ mutex' = w
  /\ UNCHANGED <<txyz, lockcentres, grants>>
  /\ LockFrame

\* lockIfNotLocked, lines 67-72: the loop over lockcentres
LockScan(w) ==
  /\ caller[w].pc = "scan"
  /\ caller' = [caller EXCEPT ![w].pc = IF Blocked(lockcentres, caller[w].pos, txyz)
                                        THEN "return" ELSE "insert"]
  /\ UNCHANGED <<txyz, lockcentres, mutex, grants>>
  /\ LockFrame

\* lockIfNotLocked, lines 73-74
LockInsert(w) ==
  /\ caller[w].pc = "insert"
  /\ lockcentres' = lockcentres \cup {caller[w].pos}
  /\ grants' = [grants EXCEPT ![caller[w].pos] = IF @ < 2 THEN @ + 1 ELSE @]
  /\ caller' = [caller EXCEPT ![w].pc = "return", ![w].ret = TRUE]
  /\ UNCHANGED <<txyz, mutex>>
  /\ LockFrame

\* lockIfNotLocked returns: the lock_guard releases the mutex
LockReturn(w) ==
  /\ caller[w].pc = "return"
  /\ caller' = [caller EXCEPT ![w] = NotCalling]
  /\ mutex' = IF mutex = w THEN 0 ELSE mutex
  /\ UNCHANGED <<txyz, lockcentres, grants>>
  /\ LockFrame

\* unlock (pos), line 78
UnlockBegin(w) ==
  /\ caller[w].pc = "idle"
  /\ MutexFree
  /\ \E pos \in Positions :
       caller' = [caller EXCEPT ![w] = [pc |-> "erase", pos |-> pos, ret |-> FALSE,
                                        before |-> {}]]
  /\ mutex' = w
  /\ UNCHANGED <<txyz, lockcentres, grants>>
  /\ LockFrame

\* unlock, lines 79-80
UnlockErase(w) ==
  /\ caller[w].pc = "erase"
  /\ lockcentres' = lockcentres \ {caller[w].pos}
  /\ grants' = [grants EXCEPT ![caller[w].pos] = 0]
  /\ caller' = [caller EXCEPT ![w] = NotCalling]
  /\ mutex' = IF mutex = w THEN 0 ELSE mutex
  /\ UNCHANGED txyz
  /\ LockFrame

LockNext ==
  \/ \E w \in LockThreads : LockBegin(w)
  \/ \E w \in LockThreads : LockScan(w)
  \/ \E w \in LockThreads : LockInsert(w)
  \/ \E w \in LockThreads : LockReturn(w)
  \/ \E w \in LockThreads : UnlockBegin(w)
  \/ \E w \in LockThreads : UnlockErase(w)

(* ---------------------------- Math::binomial --------------------------- *)
\* largest argument of binomial
MaxN == 9

\* the loop of lines 32-33, from i on: the quotient (n-i+1) / i is an integer
\* division, taken before the multiplication
RECURSIVE BinomialLoop(_, _, _, _)
BinomialLoop(n, k, i, product) ==
  IF i > k THEN product
  ELSE BinomialLoop(n, k, i + 1, product * ((n - i + 1) \div i))

\* binomial (n, k)
Binomial(n, k) ==
  IF k > n THEN 0
  ELSE LET k2 == IF k * 2 > n THEN n - k ELSE k
       IN  IF k2 = 0 THEN 1 ELSE BinomialLoop(n, k2, 2, n)

NotReturned == [valid |-> FALSE, val |-> 0]

BinomialFrame ==
  UNCHANGED <<f2fvars, mapvars, matchvars, persistvars, costvars, nearvars, thrvars,
              corrvars, lockvars, srcvars>>

\* a call of binomial (n, k)
BinomialCall ==
  /\ ~coefficient.valid
  /\ coefficient' = [valid |-> TRUE, val |-> Binomial(nk.n, nk.k)]
  /\ UNCHANGED nk
  /\ BinomialFrame

(* --------------------- Source functor of fixel2fixel ------------------- *)
\* largest size the Source is constructed with
MaxSize == 12

\* number of calls made after the call that returned false first
MaxLaterCalls == 2

\* Source source (i)
NewSource(i) == [size |-> i, counter |-> 0]

SourceDeliversInclusive(s) == s.counter <= s.size

\* (index = counter++) < size
SourceDelivers(s) == s.counter < s.size

SourceFrame ==
  UNCHANGED <<f2fvars, mapvars, matchvars, persistvars, costvars, nearvars, thrvars,
              corrvars, lockvars, binvars>>

\* Source::operator() (index), lines 96-100
SourceOperator ==
  /\ Len(returned) <= source.size + MaxLaterCalls
  /\ returned' = Append(returned, [index |-> source.counter, ok |-> SourceDelivers(source)])
  /\ source' = [source EXCEPT !.counter = @ + 1]
  /\ SourceFrame

(* --------------------------- specifications ---------------------------- *)
\* no Source functor on its own
SourceIdle ==
  /\ source = NewSource(0)
  /\ returned = << >>

\* binomial is not called
BinomialIdle ==
  /\ nk = [n |-> 0, k |-> 0]
  /\ coefficient = NotReturned

\* no SpatialLock exists
LockIdle ==
  /\ txyz = <<0, 0, 0>>
  /\ lockcentres = {}
  /\ mutex = 0
  /\ caller = <<NotCalling>>
  /\ grants = <<>>

\* fixelcorrespondence does not run
CorrIdle ==
  /\ cpc = "idle"
  /\ copt = NoCommand
  /\ calgorithm = NoAlgorithm
  /\ cnext = 1
  /\ cthread = <<0>>
  /\ matched = {}
  /\ files = << >>
  /\ saved = {}
  /\ cerr = ""

\* mrthreshold does not run
ThrIdle ==
  /\ tpc = "idle"
  /\ topt = NoOptions
  /\ image = NotOpened
  /\ mask = NoImage
  /\ out = [valid |-> FALSE, vols |-> << >>]
  /\ cout = << >>
  /\ volume = 0
  /\ thresholds = << >>
  /\ issue_degeneracy_warning = FALSE
  /\ log = << >>

\* algorithm "nearest" is not constructed
NearIdle ==
  /\ maxangle = -1
  /\ angles = << >>
  /\ assigned = NotCalled

\* no DP2Cost is constructed
CostIdle ==
  /\ table = NoTable
  /\ query = << >>

\* nothing is saved, loaded or inverted
PersistIdle ==
  /\ disk = NoDirectory
  /\ loaded = NotLoaded
  /\ inv = NoInverse

\* no Mapping object is exercised
MapIdle ==
  /\ mstate = "none"
  /\ ndebug = FALSE
  /\ source_fixels = 0
  /\ target_fixels = 0
  /\ M = << >>
  /\ fresh = FALSE
  /\ result = NoResult

\* no matching pass runs
MatchIdle ==
  /\ vox = << >>
  /\ algorithm = "all2all"
  /\ mthreads = 1
  /\ nextVoxel = 1
  /\ mworker = [w \in 1..1 |-> MIdle]

\* fixel2fixel does not run
F2FIdle ==
  /\ nthreads = 1
  /\ correspondence = << >>
  /\ F2FInit

\* every mapping of up to MaxTargets targets, run with 1..MaxWorkers worker threads
Init ==
  /\ nthreads \in 1..MaxWorkers
  /\ correspondence \in SmallMappings
  /\ F2FInit
  /\ MapIdle
  /\ MatchIdle
  /\ PersistIdle
  /\ CostIdle
  /\ NearIdle
  /\ ThrIdle
  /\ CorrIdle
  /\ LockIdle
  /\ BinomialIdle
  /\ SourceIdle

Next == F2FNext

Spec == Init /\ [][Next]_vars

\* the mappings in which one source fixel feeds a whole uint8_t range of targets
InitFanOut ==
  /\ nthreads = 1
  /\ correspondence \in FanOutMappings
  /\ F2FInit
  /\ MapIdle
  /\ MatchIdle
  /\ PersistIdle
  /\ CostIdle
  /\ NearIdle
  /\ ThrIdle
  /\ CorrIdle
  /\ LockIdle
  /\ BinomialIdle
  /\ SourceIdle

SpecFanOut == InitFanOut /\ [][Next]_vars


\* a Mapping is constructed and then read and written through operator[]
InitMapping ==
  /\ F2FIdle
  /\ MatchIdle
  /\ PersistIdle
  /\ CostIdle
  /\ NearIdle
  /\ ThrIdle
  /\ mstate = "none"
  /\ ndebug \in BOOLEAN
  /\ source_fixels = 0
  /\ target_fixels = 0
  /\ M = << >>
  /\ fresh = FALSE
  /\ result = NoResult
  /\ CorrIdle
  /\ LockIdle
  /\ BinomialIdle
  /\ SourceIdle

SpecMapping == InitMapping /\ [][MapNext]_vars

\* the Matcher has been constructed on an image of up to MaxVoxels voxels: the
\* mapping is sized for the fixels of the two datasets and every entry is empty
InitMatcher ==
  /\ F2FIdle
  /\ PersistIdle
  /\ CostIdle
  /\ NearIdle
  /\ ThrIdle
  /\ vox \in UNION {[1..n -> [s : 0..MaxPerVoxel, t : 0..MaxPerVoxel]] : n \in 1..MaxVoxels}
  /\ algorithm \in Algorithms
  /\ mthreads \in 1..MaxWorkers
  /\ nextVoxel = 1
  /\ mworker = [w \in MThreads |-> MIdle]
  /\ mstate = "live"
  /\ ndebug = FALSE
  /\ source_fixels = SourceOffset(vox, Len(vox) + 1)
  /\ target_fixels = TargetOffset(vox, Len(vox) + 1)
  /\ M = NewMapping(source_fixels, target_fixels)
  /\ fresh = TRUE
  /\ result = NoResult
  /\ CorrIdle
  /\ LockIdle
  /\ BinomialIdle
  /\ SourceIdle

SpecMatcher == InitMatcher /\ [][MatchNext]_vars

\* a Mapping whose entries hold indices of its source fixels, as the matching pass
\* leaves it, is saved, loaded and inverted
InitPersist ==
  /\ F2FIdle
  /\ MatchIdle
  /\ PersistIdle
  /\ CostIdle
  /\ NearIdle
  /\ ThrIdle
  /\ mstate = "live"
  /\ ndebug = FALSE
  /\ source_fixels \in 0..MaxSources
  /\ target_fixels \in 0..MaxTargets
  /\ M \in [0..(target_fixels - 1) -> ListsOver(source_fixels)]
  /\ fresh = FALSE
  /\ result = NoResult
  /\ CorrIdle
  /\ LockIdle
  /\ BinomialIdle
  /\ SourceIdle

SpecPersist == InitPersist /\ [][PersistNext]_vars

\* a DP2Cost is constructed and called
InitCost ==
  /\ F2FIdle
  /\ MapIdle
  /\ MatchIdle
  /\ PersistIdle
  /\ CostIdle
  /\ NearIdle
  /\ ThrIdle
  /\ CorrIdle
  /\ LockIdle
  /\ BinomialIdle
  /\ SourceIdle

SpecCost == InitCost /\ [][CostNext]_vars

\* algorithm "nearest" is selected and called on a voxel
InitNearest ==
  /\ F2FIdle
  /\ MapIdle
  /\ MatchIdle
  /\ PersistIdle
  /\ CostIdle
  /\ maxangle = -1
  /\ angles \in Voxels
  /\ assigned = NotCalled
  /\ ThrIdle
  /\ CorrIdle
  /\ LockIdle
  /\ BinomialIdle
  /\ SourceIdle

SpecNearest == InitNearest /\ [][NearNext]_vars

\* mrthreshold is started
InitThreshold ==
  /\ F2FIdle
  /\ MapIdle
  /\ MatchIdle
  /\ PersistIdle
  /\ CostIdle
  /\ NearIdle
  /\ tpc = "options"
  /\ topt = NoOptions
  /\ image = NotOpened
  /\ mask = NoImage
  /\ out = [valid |-> FALSE, vols |-> << >>]
  /\ cout = << >>
  /\ volume = 0
  /\ thresholds = << >>
  /\ issue_degeneracy_warning = FALSE
  /\ log = << >>
  /\ CorrIdle
  /\ LockIdle
  /\ BinomialIdle
  /\ SourceIdle

SpecThreshold == InitThreshold /\ [][ThrNext]_vars

\* fixelcorrespondence is started on a command line
InitCorrespondence ==
  /\ F2FIdle
  /\ MapIdle
  /\ MatchIdle
  /\ PersistIdle
  /\ CostIdle
  /\ NearIdle
  /\ ThrIdle
  /\ cpc = "start"
  /\ copt \in Commands
  /\ calgorithm = NoAlgorithm
  /\ cnext = 1
  /\ cthread = [w \in 1..copt.threads |-> 0]
  /\ matched = {}
  /\ files = << >>
  /\ saved = {}
  /\ cerr = ""
  /\ LockIdle
  /\ BinomialIdle
  /\ SourceIdle

SpecCorrespondence == InitCorrespondence /\ [][CorrNext]_vars

\* a SpatialLock is constructed and shared by the threads
InitLock ==
  /\ F2FIdle
  /\ MapIdle
  /\ MatchIdle
  /\ PersistIdle
  /\ CostIdle
  /\ NearIdle
  /\ ThrIdle
  /\ CorrIdle
  /\ txyz \in ThresholdSettings
  /\ lockcentres = {}
  /\ mutex = 0
  /\ caller = [w \in LockThreads |-> NotCalling]
  /\ grants = [p \in Positions |-> 0]
  /\ BinomialIdle
  /\ SourceIdle

SpecLock == InitLock /\ [][LockNext]_vars

\* binomial is called with small arguments
InitBinomial ==
  /\ F2FIdle
  /\ MapIdle
  /\ MatchIdle
  /\ PersistIdle
  /\ CostIdle
  /\ NearIdle
  /\ ThrIdle
  /\ CorrIdle
  /\ LockIdle
  /\ nk \in [n : 0..MaxN, k : 0..MaxN]
  /\ coefficient = NotReturned
  /\ SourceIdle

SpecBinomial == InitBinomial /\ [][BinomialCall]_vars

\* a Source is constructed with the size of a mapping
InitSource ==
  /\ F2FIdle
  /\ MapIdle
  /\ MatchIdle
  /\ PersistIdle
  /\ CostIdle
  /\ NearIdle
  /\ ThrIdle
  /\ CorrIdle
  /\ LockIdle
  /\ BinomialIdle
  /\ \E i \in 0..MaxSize : source = NewSource(i)
  /\ returned = << >>

SpecSource == InitSource /\ [][SourceOperator]_vars

\* largest number of voxels of the 3D image that is thresholded as one block
MaxBlockSize == 3

\* the values of the voxels of the block
BlockValues == ImageValues \cup {Inf(1)}

\* a command line with at most one of -abs, -percentile, -bottom, -top, with any of
\* -ignorezero, -nan, -invert, -mask, and with an output image
BlockOptions ==
  {[abs |-> m.abs, percentile |-> m.percentile, bottom |-> m.bottom, top |-> m.top,
    to_cout |-> FALSE, all_volumes |-> FALSE, ignore_zero |-> f.ignore_zero,
    use_nan |-> f.use_nan, invert |-> f.invert, mask |-> f.mask] :
     m \in {o \in Mechanisms : NumGiven(o) <= 1 /\ NumGiven(o) = NumExplicitMechanisms(o)},
     f \in [ignore_zero : BOOLEAN, use_nan : BOOLEAN, invert : BOOLEAN, mask : BOOLEAN]}

\* run() has reached the single-block branch of execute() on a 3D image: the
\* options are read, the image and the mask are open, the output image is created
InitBlock ==
  /\ F2FIdle
  /\ MapIdle
  /\ MatchIdle
  /\ PersistIdle
  /\ CostIdle
  /\ NearIdle
  /\ CorrIdle
  /\ LockIdle
  /\ BinomialIdle
  /\ SourceIdle
  /\ tpc = "block"
  /\ topt \in BlockOptions
  /\ \E n \in 1..MaxBlockSize :
       /\ \E vals \in [1..n -> BlockValues] :
            image = [valid |-> TRUE, ndim |-> 3, vols |-> <<vals>>]
       /\ IF ~IsFinite(topt.abs) /\ topt.mask
          THEN \E m \in [1..n -> BOOLEAN] : mask = Opened(m)
          ELSE mask = NoImage
       /\ out = [valid |-> TRUE, vols |-> <<[i \in 1..n |-> Flt(0)]>>]
  /\ cout = << >>
  /\ volume = 1
  /\ thresholds = << >>
  /\ issue_degeneracy_warning = FALSE
  /\ log = FlagWarnings(topt)

SpecBlock == InitBlock /\ [][ThrBlock]_vars

(* ======================= claims about fixel2fixel ====================== *)
\* Mapping::source_fixels of the loaded mapping
SourceFixels == MaxSources

\* the constructor has completed
Constructed == pc \in {"queue", "done"}

\* operator() has completed for target index k
Processed(k) == k \in DOMAIN calls /\ calls[k] # << >>

\* the data file has the fixel count the mapping was built for
InputMatchesMapping == env.insize = {SourceFixels}

\* C1: a processed target whose source list is empty holds exactly the configured
\* fill value, for every metric, both nan flags and with or without explicit weights
C1_EmptyTargetGetsFill ==
  \A k \in DOMAIN calls :
    (Processed(k) /\ Len(correspondence[k]) = 0) =>
      /\ output_data[k] = fill.value
      /\ (pc = "done" => outfile.data[k] = fill.value)

C1_Witness ==
  \E k \in DOMAIN calls :
    /\ Processed(k)
    /\ Len(correspondence[k]) = 0
    /\ fill.value # Flt(FillDefault)
    /\ fill.nan_many2one /\ fill.nan_one2many
    /\ metric = "ANGLE"
    /\ explicit_weights.valid
    /\ output_data[k] = fill.value

\* C2: with nan_many2one set, a processed target with more than one source index
\* holds NaN whatever the metric; a processed target with exactly one source index
\* holds what it would hold with nan_many2one not set
C2_Many2OneGivesNaN ==
  \A k \in DOMAIN calls :
    (Processed(k) /\ fill.nan_many2one) =>
      /\ Len(correspondence[k]) > 1 => IsNaN(output_data[k])
      /\ Len(correspondence[k]) = 1 =>
           output_data[k] = Project(correspondence[k], input_data, implicit_weights,
                                    explicit_weights, [fill EXCEPT !.nan_many2one = FALSE],
                                    metric)

C2_Witness ==
  /\ fill.nan_many2one /\ ~fill.nan_one2many
  /\ \E k \in DOMAIN calls :
       Processed(k) /\ Len(correspondence[k]) = 2 /\ IsNaN(output_data[k])
  /\ \E k \in DOMAIN calls :
       Processed(k) /\ Len(correspondence[k]) = 1 /\ ~IsNaN(output_data[k])

\* the targets whose lists name source fixel i
TargetsOf(i) ==
  {t \in DOMAIN correspondence : \E j \in 1..Len(correspondence[t]) : correspondence[t][j] = i}

\* C3 (as claimed): with nan_one2many set and a data file of the mapping's source
\* count, every processed target whose list names a source fixel that another target
\* names too holds NaN
C3_One2ManyGivesNaN ==
  \A k \in DOMAIN calls :
    (/\ Processed(k)
     /\ InputMatchesMapping
     /\ fill.nan_one2many
     /\ \E j \in 1..Len(correspondence[k]) :
          TargetsOf(correspondence[k][j]) \ {k} # {})
    => IsNaN(output_data[k])

\* C4 (as claimed): after construction the implicit weight of every source fixel
\* that is assigned somewhere is 1 / (number of distinct targets naming it)
C4_ImplicitWeightIsInverseFanOut ==
  (Constructed /\ InputMatchesMapping) =>
    \A i \in 0..(SourceFixels - 1) :
      TargetsOf(i) # {} => implicit_weights[i] = Fin(1, Cardinality(TargetsOf(i)))

\* the aggregation of lines 124-159 is reached for target k
Aggregated(k) ==
  /\ Processed(k)
  /\ Len(correspondence[k]) > 0
  /\ ~Many2One(correspondence[k], fill)
  /\ ~One2Many(correspondence[k], fill, implicit_weights)

RECURSIVE PlainSum(_, _)
\* sum of the source values of list in over positions 1..n
PlainSum(in, n) == IF n = 0 THEN Flt(0) ELSE FAdd(PlainSum(in, n - 1), input_data[in[n]])

\* C5 (as claimed): for an aggregated target whose source fixels all have the implicit
\* weight w, without explicit weights and with a data file of the mapping's source
\* count: mean gives the arithmetic mean of the source values, sum gives w times
\* the sum of the values and count the number of source fixels
C5_EqualWeightMetrics ==
  \A k \in DOMAIN calls :
    LET in == correspondence[k]
        w == implicit_weights[in[1]]
    IN (/\ Aggregated(k)
        /\ InputMatchesMapping
        /\ ~explicit_weights.valid
        /\ \A j \in 1..Len(in) : implicit_weights[in[j]] = w)
       => /\ metric = "MEAN" => output_data[k] = FDiv(PlainSum(in, Len(in)), Flt(Len(in)))
          /\ metric = "SUM" => output_data[k] = FMul(PlainSum(in, Len(in)), w)
          /\ metric = "COUNT" => output_data[k] = Flt(Len(in))

\* C6 (as claimed): a data file whose fixel count is not the mapping's source count
\* is rejected before any target is processed, so no target is ever processed by a
\* run that has read such a file
C6_WrongInputSizeRejected ==
  (env.insize # {} /\ ~InputMatchesMapping) => \A k \in DOMAIN calls : ~Processed(k)

\* one of the configuration errors of C7 has been found
BadConfiguration ==
  \/ FALSE \in env.outdir
  \/ TRUE \in env.isdir
  \/ FALSE \in env.isdata
  \/ (env.wsize # {} /\ env.insize # {} /\ env.wsize # env.insize)
  \/ (env.tsize # {} /\ env.tsize # {size})

\* C7: when the output directory is missing, the input is a directory or no fixel
\* data file, the weights file and the input file differ in fixel count or the
\* target directory and the mapping differ in size, the run is at its error exit,
\* no index was pulled from the source and the output data file does not exist
C7_ConfigurationErrorFailsFast ==
  BadConfiguration =>
    /\ pc = "error"
    /\ counter = 0
    /\ queue = << >>
    /\ \A w \in Workers : worker[w].st = "idle"
    /\ \A k \in DOMAIN calls : ~Processed(k)
    /\ ~outfile.valid

C7_Witness ==
  /\ pc = "error"
  /\ explicit_weights.valid
  /\ env.wsize = env.insize
  /\ env.tsize # {} /\ env.tsize # {size}
  /\ size > 0
  /\ counter = 0
  /\ ~outfile.valid

\* the content of output_data after processing the indices one after the other
Sequential ==
  [k \in DOMAIN correspondence |->
     Project(correspondence[k], input_data, implicit_weights, explicit_weights, fill, metric)]

\* C8: no target index is given to operator() twice, a worker inside operator()
\* addresses the output entry of the index it was given, an entry not yet processed
\* still holds the scratch value, a processed entry holds the value of its own
\* aggregation, and at the end every index has been processed once and the saved
\* output is the result of processing the indices sequentially
C8_WorkersDisjoint ==
  Constructed =>
    /\ \A k \in DOMAIN calls : Len(calls[k]) <= 1
    /\ \A w \in Workers : worker[w].st = "busy" =>
         /\ OutputIndex(w) = worker[w].item
         /\ calls[worker[w].item] = << >>
    /\ \A w1 \in Workers, w2 \in Workers :
         (w1 # w2 /\ worker[w1].st = "busy" /\ worker[w2].st = "busy")
           => worker[w1].item # worker[w2].item
    /\ LET seq == Sequential
       IN \A k \in DOMAIN calls :
            output_data[k] = IF Processed(k) THEN seq[k] ELSE Flt(0)
    /\ pc = "done" =>
         /\ \A k \in DOMAIN calls : Len(calls[k]) = 1
         /\ output_data = Sequential
         /\ outfile.data = Sequential

C8_Witness ==
  /\ pc = "done"
  /\ nthreads > 1
  /\ size = MaxTargets
  /\ calls[0] # calls[1]
  /\ output_data[0] # output_data[1]
  /\ outfile.data = Sequential


(* ================= claims about the matching pass, Mapping ============= *)
\* the threaded voxel loop has returned
MatchFinished == nextVoxel > Len(vox) /\ \A w \in MThreads : mworker[w].st = "idle"

\* the voxel that holds target fixel k
VoxelOfTarget(k) ==
  CHOOSE v \in 1..Len(vox) : TargetOffset(vox, v) <= k /\ k < TargetOffset(vox, v) + vox[v].t

\* the mapping that the datasets and the algorithm determine
ExpectedMapping ==
  [k \in 0..(target_fixels - 1) |->
     LET v == VoxelOfTarget(k)
     IN Translate(Fragment(algorithm, vox[v].s, vox[v].t)[k - TargetOffset(vox, v) + 1],
                  SourceOffset(vox, v))]

\* C9: whatever the number of threads and the order of the voxels, no two threads are
\* on the same voxel, an entry holds nothing or the list its own voxel gives it, and
\* after the loop the mapping is the one the datasets and the algorithm determine
C9_MappingIndependentOfSchedule ==
  /\ \A w1 \in MThreads, w2 \in MThreads :
       (w1 # w2 /\ mworker[w1].st = "busy" /\ mworker[w2].st = "busy")
         => mworker[w1].v # mworker[w2].v
  /\ MapSize(M) = target_fixels
  /\ LET exp == ExpectedMapping
     IN /\ \A k \in DOMAIN M : M[k] = << >> \/ M[k] = exp[k]
        /\ MatchFinished => M = exp

C9_Witness ==
  /\ MatchFinished
  /\ mthreads > 1
  /\ Len(vox) = MaxVoxels
  /\ \A v \in 1..Len(vox) : vox[v].t = MaxPerVoxel /\ vox[v].s > 0
  /\ \A k \in DOMAIN M : M[k] # << >>
  /\ M = ExpectedMapping

\* C10: a live Mapping has as many entries as the target count it was constructed
\* with, before and after every read and write through operator[], and every entry
\* is empty until the first write
C10_SizeIsTargetCount ==
  mstate = "live" =>
    /\ MapSize(M) = target_fixels
    /\ DOMAIN M = 0..(target_fixels - 1)
    /\ fresh => \A k \in DOMAIN M : M[k] = << >>
    /\ result.op = "mapsize" => result.val = <<target_fixels>>

C10_Witness ==
  /\ mstate = "live"
  /\ ~fresh
  /\ target_fixels = MaxTargets
  /\ source_fixels # target_fixels
  /\ \A k \in DOMAIN M : Len(M[k]) = MapListLen
  /\ result = [op |-> "mapsize", val |-> <<target_fixels>>]

(* ========================= claims about Mapping ======================== *)
\* C11: every index stored in every entry of a live Mapping is smaller than the
\* source-fixel count the Mapping was constructed with
C11_StoredIndicesValid ==
  mstate = "live" =>
    \A k \in DOMAIN M : \A j \in 1..Len(M[k]) : M[k][j] < source_fixels

\* a step of an access through operator[] whose index is not smaller than size()
OutOfRangeStep ==
  /\ mstate = "live"
  /\ OutOfRange(result) \/ OutOfRange([op |-> "garbage", val |-> << >>])

\* a step of an access through operator[] that has read or changed an entry
EntryStep == mstate = "live" /\ (M' # M \/ result'.op \in {"list", "size", "at"})

\* C12: an access with an index not smaller than size() ends in the assertion
\* with no entry read or changed, and an access that reads or changes an entry
\* does not trip the assertion
C12_RangeAssertionTrips ==
  [][/\ OutOfRangeStep => (mstate' = "abort" /\ M' = M /\ result' = result)
     /\ EntryStep => mstate' = "live"]_vars

\* C13: inverse() has one entry per source fixel, and the entry of source fixel k
\* holds target t once for every occurrence of k in the list of t and nothing else,
\* so that the entry of a source fixel assigned to no target is empty
C13_InverseCountsEachOccurrence ==
  inv.valid =>
    /\ DOMAIN inv.val = 0..(source_fixels - 1)
    /\ \A k \in DOMAIN inv.val :
         /\ \A j \in 1..Len(inv.val[k]) : inv.val[k][j] \in DOMAIN M
         /\ \A t \in DOMAIN M : CountIn(inv.val[k], t) = CountIn(M[t], k)
         /\ (\A t \in DOMAIN M : CountIn(M[t], k) = 0) => inv.val[k] = << >>

C13_Witness ==
  /\ inv.valid
  /\ source_fixels = MaxSources
  /\ target_fixels = MaxTargets
  /\ M[0] = <<0, 0>>
  /\ M[MaxTargets - 1] = <<0>>
  /\ inv.val[0] = <<0, 0, MaxTargets - 1>>
  /\ inv.val[MaxSources - 1] = << >>

\* C14: the Mapping that load (directory) fills from what save (directory) wrote
\* has the size of the saved Mapping and, for every target, the same list in the
\* same order
C14_SaveLoadRoundTrip ==
  (loaded.st = "ok" /\ ~loaded.inverse) =>
    /\ MapSize(loaded.M) = MapSize(M)
    /\ DOMAIN loaded.M = DOMAIN M
    /\ \A t \in DOMAIN M : loaded.M[t] = M[t]

C14_Witness ==
  /\ loaded.st = "ok"
  /\ ~loaded.inverse
  /\ target_fixels = MaxTargets
  /\ M[0] = << >>
  /\ loaded.M[MaxTargets - 1] = <<1, 0>>

(* ========================= claims about DP2Cost ======================== *)
\* C15: the table has resolution+2 entries of which the last is 0, and both table
\* positions that a call with dp in [0,1] reads, lower and lower+1, are entries of
\* the table
C15_ReadsStayInTable ==
  table.st # "none" =>
    /\ table.size = table.resolution + 2
    /\ Data(table, table.resolution + 1) = F32Zero
    /\ \A c \in 1..Len(query) :
         /\ query[c].st = "ok"
         /\ 0 <= query[c].lower
         /\ query[c].lower + 1 <= table.resolution + 1

\* C16: a call with dp = 1.0 that returns, returns exactly 0
C16_ParallelCostsNothing ==
  \A c \in 1..Len(query) :
    (query[c].dp = F32One /\ query[c].st = "ok") => query[c].result = F32Zero

\* C17: of two calls that return, the one with the larger dp does not return the
\* larger cost
C17_CostNonIncreasing ==
  \A c1, c2 \in 1..Len(query) :
    (/\ query[c1].st = "ok"
     /\ query[c2].st = "ok"
     /\ F32LessEq(query[c1].dp, query[c2].dp))
      => F32LessEq(query[c2].result, query[c1].result)

(* =================== claims about algorithm "nearest" ================== *)
\* C18: a call of algorithm "nearest" gives every target fixel of the voxel at most
\* one source fixel; a target fixel has one exactly when the smallest angle to a
\* source fixel of the voxel is less than the threshold, and then it is a source
\* fixel at that smallest angle
C18_NearestWithinThreshold ==
  assigned.valid =>
    /\ Len(assigned.val) = Len(angles)
    /\ \A j \in 1..Len(angles) :
         LET row == angles[j]
             close == {i \in 1..Len(row) : \A k \in 1..Len(row) : row[i] <= row[k]}
         IN  /\ Len(assigned.val[j]) <= 1
             /\ assigned.val[j] # << >> <=> \E i \in close : row[i] < maxangle
             /\ assigned.val[j] # << >> => assigned.val[j][1] + 1 \in close

C18_Witness ==
  /\ maxangle = 45
  /\ Len(angles) = MaxNearTargets
  /\ assigned.valid
  /\ angles[1] = <<90, 0>>
  /\ assigned.val[1] = <<1>>
  /\ \A i \in 1..Len(angles[MaxNearTargets]) : angles[MaxNearTargets][i] = 45
  /\ Len(angles[MaxNearTargets]) = MaxNearSources
  /\ assigned.val[MaxNearTargets] = << >>

(* ======================= claims about mrthreshold ====================== *)
\* C19: when more than one of -abs, -percentile, -top, -bottom is given, the
\* command ends with the error of line 413 before the input image is opened and
\* before any output is created; with none or one of them that error is not raised.
C19_MoreThanOneMechanismIsAnError ==
  tpc \notin {"idle", "options"} =>
    IF NumGiven(topt) > 1
    THEN /\ tpc = "error"
         /\ log = <<TooManyMessage>>
         /\ ~image.valid
         /\ ~out.valid
         /\ cout = << >>
    ELSE \A i \in 1..Len(log) : log[i] # TooManyMessage

\* the blocks calculate() is called for: the volumes, or the whole image
PerVolume == image.ndim > 3 /\ ~topt.all_volumes

\* the values of block k that the threshold is determined from
BlockData(k) ==
  IF PerVolume
  THEN GetData(image.vols[k], mask.data, topt.ignore_zero, Len(image.vols[k]))
  ELSE LET vals == Block(image.vols, Len(image.vols))
       IN  GetData(vals, Replicate(mask.data, Len(image.vols)), topt.ignore_zero, Len(vals))

\* the threshold is determined by -top or -bottom
ByRank == ~IsFinite(topt.abs) /\ ~IsFinite(topt.percentile) /\ (topt.bottom >= 0 \/ topt.top >= 0)

\* the number of values of data equal to x
EqualValues(data, x) == Cardinality({i \in 1..Len(data) : FEqual(data[i], x)})

HasNaN(data) == \E i \in 1..Len(data) : data[i].k = "nan"

\* in ascending order, the value at the rank of the threshold equals the one
\* before it or the one after it
SortedNeighbourEqual(data) ==
  LET sorted == Sorted(data)
      rank == Index(Len(data), topt.bottom, topt.top) + 1
  IN  \/ rank > 1 /\ FEqual(sorted[rank - 1], sorted[rank])
      \/ rank < Len(data) /\ FEqual(sorted[rank + 1], sorted[rank])

\* the number of entries of the log that are the warning of lines 464-467
RECURSIVE DegeneracyWarnings(_)
DegeneracyWarnings(l) ==
  IF l = << >> THEN 0
  ELSE (IF Head(l) = DegeneracyMessage THEN 1 ELSE 0) + DegeneracyWarnings(Tail(l))

\* C20: with -top/-bottom the degeneracy flag is set exactly when the value chosen
\* as threshold equals its neighbour below or above in sorted order: when it is
\* set, some processed block holds the threshold value at least twice (no order
\* puts an equal neighbour next to a value that occurs once), and a processed block
\* of ordered values with an equal neighbour sets it; the run that ends has
\* processed every block and has warned once if the flag is set, never before.
C20_DegeneracyFlagMeansEqualNeighbour ==
  /\ issue_degeneracy_warning =>
       \E k \in 1..Len(thresholds) :
         ByRank /\ EqualValues(BlockData(k), thresholds[k]) >= 2
  /\ \A k \in 1..Len(thresholds) :
       ByRank /\ ~HasNaN(BlockData(k)) /\ SortedNeighbourEqual(BlockData(k))
         => issue_degeneracy_warning
  /\ tpc = "done" =>
       /\ Len(thresholds) = (IF PerVolume THEN Len(image.vols) ELSE 1)
       /\ DegeneracyWarnings(log) = (IF issue_degeneracy_warning THEN 1 ELSE 0)
  /\ tpc # "done" => DegeneracyWarnings(log) = 0

\* the part of C20 that holds: on blocks whose values are all ordered (no NaN)
C20_OrderedBlocks ==
  (ByRank /\ \A k \in 1..Len(thresholds) : ~HasNaN(BlockData(k))) =>
     (issue_degeneracy_warning <=>
        \E k \in 1..Len(thresholds) : SortedNeighbourEqual(BlockData(k)))

\* the run of "-allvolumes -ignorezero -bottom 2" on the values 2, 2, NaN, 1 that
\* raised the flag with the threshold 1
C20_FlagWithoutDuplicate ==
  /\ image.valid
  /\ image.vols = << <<Flt(2), Flt(2)>>, <<NaN, Flt(1)>> >>
  /\ topt.all_volumes /\ topt.ignore_zero /\ topt.bottom = 2
  /\ thresholds = <<Flt(1)>>
  /\ issue_degeneracy_warning

\* the run of "-abs inf -top 1" that opened the image and created the output
C19_TwoMechanismsAccepted ==
  /\ topt.abs = Inf(1)
  /\ topt.top = 1
  /\ image.valid
  /\ out.valid

(* ---------------- mrthreshold on a single block of values --------------- *)
\* the single block has been thresholded: calculate() returned and apply() ran
BlockDone == tpc = "end" /\ ~PerVolume /\ Len(thresholds) = 1

\* the threshold of the block was determined from -percentile
ByPercentile == ~IsFinite(topt.abs) /\ IsFinite(topt.percentile)

AllFinite(data) == \A i \in 1..Len(data) : IsFinite(data[i])

\* x is an element of data that no element of data is below (above)
IsMinimum(x, data) ==
  /\ \E i \in 1..Len(data) : data[i] = x
  /\ \A i \in 1..Len(data) : ~FLessInf(data[i], x)

IsMaximum(x, data) ==
  /\ \E i \in 1..Len(data) : data[i] = x
  /\ \A i \in 1..Len(data) : ~FLessInf(x, data[i])

\* C27: with -percentile, for every non-empty set of valid values, a single value
\* included, a percentile strictly between 0 and 100 reads its two elements at
\* positions (counted from 0) inside 0..data.size()-1; the percentile 0 returns
\* the minimum of the values and the percentile 100 the maximum.
C27_PercentileReadsInsideData ==
  (BlockDone /\ ByPercentile /\ AllFinite(BlockData(1))) =>
     LET data == BlockData(1)
         lower_index == LowerIndex(data, topt.percentile)
     IN  /\ (FLessInf(Flt(0), topt.percentile) /\ FLessInf(topt.percentile, Flt(100))) =>
              /\ lower_index >= 0
              /\ lower_index + 1 <= Len(data) - 1
         /\ topt.percentile = Flt(0) => IsMinimum(thresholds[1], data)
         /\ topt.percentile = Flt(100) => IsMaximum(thresholds[1], data)

\* the parts of C27 that hold: with two values or more both reads are inside the
\* data, and the percentiles 0 and 100 return the minimum and the maximum
C27_TwoValuesOrMore ==
  (BlockDone /\ ByPercentile /\ AllFinite(BlockData(1))) =>
     LET data == BlockData(1)
         lower_index == LowerIndex(data, topt.percentile)
     IN  /\ (FLessInf(Flt(0), topt.percentile) /\ FLessInf(topt.percentile, Flt(100))
               /\ Len(data) >= 2) =>
              /\ lower_index >= 0
              /\ lower_index + 1 <= Len(data) - 1
         /\ topt.percentile = Flt(0) => IsMinimum(thresholds[1], data)
         /\ topt.percentile = Flt(100) => IsMaximum(thresholds[1], data)

\* the run of "-percentile 50 -nan" on the single value 1 whose second read, at
\* position 1 of a vector of size 1, was a NaN: every voxel is set to NaN
C27_ReadPastTheEnd ==
  /\ BlockDone
  /\ topt.percentile = Flt(50) /\ topt.use_nan /\ ~topt.invert /\ ~topt.ignore_zero
  /\ image.vols = << <<Flt(1)>> >>
  /\ thresholds = <<NaN>>
  /\ out.vols = << <<NaN>> >>

\* C28: the values get_data() collects for -percentile, -top and -bottom never
\* include a NaN or an infinity, with or without -mask and -ignorezero; with
\* -ignorezero they never include a zero either.
C28_DataAreFinite ==
  (tpc \in {"end", "error"} /\ ~PerVolume /\ (ByPercentile \/ ByRank)) =>
     \A i \in 1..Len(BlockData(1)) :
       /\ IsFinite(BlockData(1)[i])
       /\ topt.ignore_zero => NonZero(BlockData(1)[i])

\* the parts of C28 that hold: without -ignorezero the values are finite, with
\* -ignorezero none is zero, and with a mask each belongs to a voxel of the mask
C28_FiniteWithoutIgnoreZero ==
  (tpc \in {"end", "error"} /\ ~PerVolume /\ (ByPercentile \/ ByRank)) =>
     /\ \A i \in 1..Len(BlockData(1)) :
          /\ ~topt.ignore_zero => IsFinite(BlockData(1)[i])
          /\ topt.ignore_zero => NonZero(BlockData(1)[i])
     /\ Len(BlockData(1)) <=
          Cardinality({i \in 1..Len(image.vols[1]) : mask.valid => mask.data[i]})

\* the run of "-ignorezero -top 1" on the values 1, NaN, inf whose data held the
\* NaN and the infinity
C28_NaNAmongData ==
  /\ BlockDone
  /\ topt.ignore_zero /\ topt.top = 1 /\ ~mask.valid
  /\ image.vols = << <<Flt(1), NaN, Inf(1)>> >>
  /\ BlockData(1) = <<Flt(1), NaN, Inf(1)>>

\* the value of the output that stands for "fails": false, or NaN with -nan
FailValue == IF topt.use_nan THEN NaN ELSE Flt(0)

\* what the run without -invert writes for the finite value v: the value passes
\* when it is above the threshold, or equal to it unless -bottom is given
WithoutInvert(v) ==
  IF FLessInf(thresholds[1], v) \/ (topt.bottom < 0 /\ FEqual(v, thresholds[1]))
  THEN Flt(1) ELSE FailValue

Opposite(x) == IF x = Flt(1) THEN FailValue ELSE Flt(1)

\* C29: apply() gives every non-finite input (NaN, infinity) the fail value, false
\* or NaN with -nan, with and without -invert; for every finite input the output
\* with -invert is the opposite of the output without -invert.
C29_InvertSparesNonFinite ==
  BlockDone =>
    \A i \in 1..Len(image.vols[1]) :
      LET v == image.vols[1][i]
      IN  IF ~IsFinite(v) THEN out.vols[1][i] = FailValue
          ELSE out.vols[1][i] =
                 (IF topt.invert THEN Opposite(WithoutInvert(v)) ELSE WithoutInvert(v))

\* "-abs 1 -invert" has run on the values 0, NaN, inf: the 0, below the threshold,
\* is selected, the NaN and the infinity have the fail value
C29_Witness ==
  /\ BlockDone
  /\ topt.invert /\ ~topt.use_nan /\ topt.abs = Flt(1)
  /\ image.vols = << <<Flt(0), NaN, Inf(1)>> >>
  /\ out.vols = << <<Flt(1), Flt(0), Flt(0)>> >>

\* the voxels of the block that the output mask selects
Selected == {i \in 1..Len(out.vols[1]) : out.vols[1][i] = Flt(1)}

Omitted == (1..Len(out.vols[1])) \ Selected

\* the block of the claim: finite, pairwise distinct values, no mask, and a plain
\* run (all values are valid, the mask is not inverted)
DistinctFiniteBlock ==
  /\ ~mask.valid /\ ~topt.ignore_zero /\ ~topt.invert
  /\ AllFinite(image.vols[1])
  /\ \A i, j \in 1..Len(image.vols[1]) : i # j => image.vols[1][i] # image.vols[1][j]

C22_BottomOmitsThreshold ==
  /\ BlockDone /\ DistinctFiniteBlock
  /\ topt.bottom = 2 /\ ~topt.use_nan
  /\ image.vols = << <<Flt(1), Flt(0), Flt(2)>> >>
  /\ thresholds = <<Flt(1)>>
  /\ out.vols = << <<Flt(0), Flt(0), Flt(1)>> >>

(* =================== claims about fixelcorrespondence ================== *)
\* the position of file in the list of the outputs created, 0 when it is not there
RECURSIVE Created(_, _)
Created(list, file) ==
  IF list = << >> THEN 0
  ELSE IF list[Len(list)] = file THEN Len(list)
  ELSE Created(SubSeq(list, 1, Len(list) - 1), file)

\* the threaded voxel loop has finished: every voxel is matched, no thread is on one
LoopFinished ==
  /\ matched = 1..copt.voxels
  /\ \A w \in DOMAIN cthread : cthread[w] = 0

\* C21: if the output path exists the run ends with an error before the algorithm
\* is constructed and before any voxel is matched, with or without -force;
\* otherwise the mapping is saved only after the voxel loop has finished, and the
\* cost image and the remapped fixels are exported only after the mapping is saved.
C21_OutputsInOrder ==
  /\ (copt.exists /\ cpc # "start") =>
       /\ cpc = "error"
       /\ cerr = ExistsMessage(copt)
       /\ ~calgorithm.constructed
       /\ matched = {}
       /\ \A w \in DOMAIN cthread : cthread[w] = 0
       /\ files = << >>
  /\ Created(files, "mapping") # 0 => ~copt.exists /\ LoopFinished /\ saved = 1..copt.voxels
  /\ Created(files, "cost") # 0 =>
       Created(files, "mapping") # 0 /\ Created(files, "mapping") < Created(files, "cost")
  /\ Created(files, "remapped") # 0 =>
       Created(files, "mapping") # 0 /\ Created(files, "mapping") < Created(files, "remapped")

\* a run with -force on an existing output has ended with the error
C21_Witness ==
  /\ copt.exists
  /\ copt.force
  /\ cpc = "error"

\* C30: the cost image is written only when the algorithm owns a valid cost image;
\* with algorithm nearest, which owns none, -cost creates no file and raises no
\* error, and the mapping is saved as without -cost.
C30_CostOnlyFromValidImage ==
  /\ Created(files, "cost") # 0 => copt.cost /\ calgorithm.cost_image
  /\ (cpc \in {"remapped", "done"} /\ copt.cost) =>
       /\ (Created(files, "cost") # 0 <=> copt.algorithm_index # 0)
       /\ cerr = ""
       /\ Created(files, "mapping") = 1
       /\ saved = 1..copt.voxels

\* a run of algorithm nearest with -cost has ended
C30_Witness ==
  /\ cpc = "done"
  /\ copt.algorithm_index = 0
  /\ copt.cost
  /\ files = <<"mapping">>

(* ======================== claims about SpatialLock ===================== *)
\* the thresholds of the lock are positive on the three axes
PositiveThresholds == txyz[1] > 0 /\ txyz[2] > 0 /\ txyz[3] > 0

\* p and q differ by less than the threshold on all three axes
TooClose(p, q) ==
  \A axis \in 1..3 :
    (IF p[axis] >= q[axis] THEN p[axis] - q[axis] ELSE q[axis] - p[axis]) < txyz[axis]

\* C24: with positive thresholds, under every interleaving of the calls of the
\* threads, no two distinct positions held in lockcentres differ by less than the
\* threshold on all three axes, and a lockIfNotLocked that returns false has left
\* lockcentres as it was when the call began.
C24_HeldPositionsApart ==
  PositiveThresholds =>
    /\ \A p \in lockcentres : \A q \in lockcentres : p # q => ~TooClose(p, q)
    /\ \A w \in LockThreads :
         (caller[w].pc = "return" /\ ~caller[w].ret) => lockcentres = caller[w].before

\* two positions are held and a call is about to return false
C24_Witness ==
  /\ PositiveThresholds
  /\ Cardinality(lockcentres) >= 2
  /\ \E w \in LockThreads : caller[w].pc = "return" /\ ~caller[w].ret

\* C25: for every threshold setting, the default-constructed lock included, once
\* lockIfNotLocked (p) has returned true no further lockIfNotLocked (p) returns
\* true until unlock (p): no position is granted twice.
C25_NoPositionGrantedTwice == \A p \in Positions : grants[p] <= 1

\* the part of C25 that holds: locks with positive thresholds
C25_PositiveThresholdsGrantOnce ==
  PositiveThresholds => \A p \in Positions : grants[p] <= 1

(* ======================= claims about Math::binomial =================== *)
\* n choose k by the rule of Pascal's triangle
RECURSIVE Choose(_, _)
Choose(n, k) ==
  IF k > n THEN 0
  ELSE IF k = 0 \/ k = n THEN 1
  ELSE Choose(n - 1, k - 1) + Choose(n - 1, k)

\* C26: binomial (n, k) returns n choose k for 0 <= k <= n, and 0 when k > n.
C26_BinomialIsChoose ==
  coefficient.valid => coefficient.val = Choose(nk.n, nk.k)

\* the example of the claim: binomial (6, 3) has returned 12
C26_SixChooseThree ==
  /\ nk = [n |-> 6, k |-> 3]
  /\ coefficient = [valid |-> TRUE, val |-> 12]

(* ====================== claims about the Source functor ================ *)
\* C23: over successive calls the Source functor delivers the indices 0, 1, ...,
\* size-1 each once and in increasing order, returning true for each, and returns
\* false on the call after the last index and on every later call: call number c
\* sets the index c - 1 and returns true exactly when c <= size, so no index that
\* is delivered reaches the mapping size.
C23_SourceDeliversEachIndexOnce ==
  \A c \in 1..Len(returned) :
    /\ returned[c].index = c - 1
    /\ returned[c].ok = (c <= source.size)
    /\ returned[c].ok => returned[c].index < source.size

\* every index was delivered and two later calls were made
C23_Witness ==
  /\ source.size >= 2
  /\ Len(returned) = source.size + 2
  /\ ~returned[Len(returned)].ok

====
